---- MODULE Spec2Model ----
(***************************************************************************)
(* Order intake (create_order.py), price-table ingestion                   *)
(* (database_setup.py) and the pricing query (get_pricing.py) of the       *)
(* sticker / magnet storefront backend, as one state machine.              *)
(*                                                                         *)
(* Conventions                                                             *)
(*   - a JSON object / Python dict is a function whose DOMAIN is the set   *)
(*     of keys that are present;                                           *)
(*   - a JSON number is [num |-> n] with n counted in thousandths, a JSON  *)
(*     string in a numeric position is [str |-> s];                        *)
(*   - a Decimal with two places is an integer number of cents.            *)
(***************************************************************************)
EXTENDS Integers, Sequences, FiniteSets, TLC

VARIABLES
    pc,               \* per submission: position of lambda_handler
    event,            \* per submission: the API Gateway event being handled
    customer_errors,  \* per submission: result of validate_customer_info
    item_errors,      \* per submission: result of validate_items
    order_record,     \* per submission: result of prepare_order_record
    response,         \* per submission: the handler's return value
    puts,             \* per submission: outcomes of the put_item calls made
    invokes,          \* per submission: outcomes of the invoke calls made
    orders,           \* the orders table: orderId -> item
    issued,           \* per submission: the value its generate_order_id call returned
    clock,            \* datetime.utcnow(), in whole seconds
    tables,           \* the three pricing tables: name -> (key -> item)
    jpc,              \* per refresh job: position in database_setup.main
    source,           \* per refresh job: the rows of size-price.csv it read
    sticker_list,  \* per refresh job: first list of parse_price_csv
    magnet_list,   \* per refresh job: second list of parse_price_csv
    fridge_list,   \* per refresh job: calculate_fridge_magnet_pricing's list
    written,          \* per refresh job: items of the current list written so far
    answer            \* the latest pricing query and get_pricing's response to it

orderVars == <<pc, event, customer_errors, item_errors, order_record, response,
               puts, invokes, orders, issued, clock>>

pricingVars == <<tables, jpc, source, sticker_list, magnet_list, fridge_list,
                 written, answer>>

vars == <<orderVars, pricingVars>>

(***************************************************************************)
(* Bounds of the model.                                                    *)
(***************************************************************************)
MaxSubmissions == 2
MaxClock == 1

Submissions == 1..MaxSubmissions

\* The refresh jobs (runs of database_setup.py).
Jobs == {1, 2}

(***************************************************************************)
(* Python values.                                                          *)
(***************************************************************************)
None == "<None>"
NoRecord == [none |-> TRUE]
EmptyDict == [k \in {} |-> None]

Get(d, k, dflt) == IF k \in DOMAIN d THEN d[k] ELSE dflt

Truthy(s) == s /= None /\ s /= ""

\* Faulty variant: the second operand wins when it is truthy.
OrSecond(a, b) == IF Truthy(b) THEN b ELSE a

Or(a, b) == IF Truthy(a) THEN a ELSE b

Contains(s, c) == \E i \in 1..Len(s) : SubSeq(s, i, i) = c

Num(n) == [num |-> n]
Str(s) == [str |-> s]
IsNum(v) == "num" \in DOMAIN v

RECURSIVE Flatten(_)
Flatten(ss) == IF ss = <<>> THEN <<>> ELSE Head(ss) \o Flatten(Tail(ss))

(***************************************************************************)
(* create_order.validate_customer_info                                     *)
(***************************************************************************)
\* Faulty variant: returns at the first violated requirement.
validate_customer_info_first_only(customer_info, shipping_address) ==
    LET name  == Or(Get(customer_info, "name", None),
                    Get(customer_info, "fullName", None))
        email == Get(customer_info, "email", "")
        missing(k) == ~Truthy(Get(shipping_address, k, None))
    IN  IF ~Truthy(name) THEN <<"Missing required customer field: name">>
        ELSE IF ~Truthy(email) THEN <<"Missing required customer field: email">>
        ELSE IF ~Contains(email, "@") THEN <<"Invalid email format">>
        ELSE IF ~Truthy(Or(Get(shipping_address, "street", None),
                           Get(shipping_address, "address", None)))
             THEN <<"Missing required shipping field: address">>
        ELSE IF missing("city") THEN <<"Missing required shipping field: city">>
        ELSE IF missing("state") THEN <<"Missing required shipping field: state">>
        ELSE IF missing("zip") THEN <<"Missing required shipping field: zip">>
        ELSE <<>>

\* Faulty variant: the loop over required_shipping is left out.
validate_customer_info_address_line_only(customer_info, shipping_address) ==
    LET name  == Or(Get(customer_info, "name", None),
                    Get(customer_info, "fullName", None))
        email == Get(customer_info, "email", "")
    IN  (IF ~Truthy(name) THEN <<"Missing required customer field: name">> ELSE <<>>)
        \o (IF ~Truthy(email) THEN <<"Missing required customer field: email">>
            ELSE IF ~Contains(email, "@") THEN <<"Invalid email format">> ELSE <<>>)
        \o (IF ~Truthy(Or(Get(shipping_address, "street", None),
                          Get(shipping_address, "address", None)))
            THEN <<"Missing required shipping field: address">> ELSE <<>>)

validate_customer_info(customer_info, shipping_address) ==
    LET name  == Or(Get(customer_info, "name", None),
                    Get(customer_info, "fullName", None))
        email == Get(customer_info, "email", "")
        required_shipping == <<"city", "state", "zip">>
        nameErr  == IF ~Truthy(name)
                    THEN <<"Missing required customer field: name">> ELSE <<>>
        emailErr == IF ~Truthy(email)
                    THEN <<"Missing required customer field: email">>
                    ELSE IF ~Contains(email, "@")
                         THEN <<"Invalid email format">> ELSE <<>>
        addrErr  == IF ~Truthy(Or(Get(shipping_address, "street", None),
                                  Get(shipping_address, "address", None)))
                    THEN <<"Missing required shipping field: address">> ELSE <<>>
        fieldErr(i) == IF ~Truthy(Get(shipping_address, required_shipping[i], None))
                       THEN <<"Missing required shipping field: " \o required_shipping[i]>>
                       ELSE <<>>
    IN  nameErr \o emailErr \o addrErr \o fieldErr(1) \o fieldErr(2) \o fieldErr(3)

(***************************************************************************)
(* create_order.validate_items.  The comparison `x < 0` raises TypeError   *)
(* when x is not a number, and the exception leaves the function: the      *)
(* result is [raised |-> TRUE] or [raised |-> FALSE, errors |-> list].     *)
(***************************************************************************)
ItemLabel(i) == "Item " \o ToString(i) \o ": "

ItemRaises(item) ==
    \/ ~IsNum(Get(item, "unitPrice", Num(0)))
    \/ ~IsNum(Get(item, "totalPrice", Num(0)))

ItemErrors(item, i) ==
    LET required_fields == <<"productType", "size", "quantity", "unitPrice", "totalPrice">>
        missing(k) == IF required_fields[k] \notin DOMAIN item
                      THEN <<ItemLabel(i) \o "Missing required field '"
                               \o required_fields[k] \o "'">>
                      ELSE <<>>
        quantity == Get(item, "quantity", Num(0))
        qtyErr   == IF ~IsNum(quantity) \/ quantity.num <= 0
                    THEN <<ItemLabel(i) \o "Invalid quantity">> ELSE <<>>
        unitErr  == IF Get(item, "unitPrice", Num(0)).num < 0
                    THEN <<ItemLabel(i) \o "Invalid unit price">> ELSE <<>>
        totalErr == IF Get(item, "totalPrice", Num(0)).num < 0
                    THEN <<ItemLabel(i) \o "Invalid total price">> ELSE <<>>
    IN  missing(1) \o missing(2) \o missing(3) \o missing(4) \o missing(5)
          \o qtyErr \o unitErr \o totalErr

validate_items(items) ==
    IF items = <<>>
    THEN [raised |-> FALSE, errors |-> <<"Order must contain at least one item">>]
    ELSE IF \E i \in 1..Len(items) : ItemRaises(items[i])
         THEN [raised |-> TRUE]
         ELSE [raised |-> FALSE,
               errors |-> Flatten([i \in 1..Len(items) |-> ItemErrors(items[i], i)])]

(***************************************************************************)
(* decimal.Decimal: parsing of a decimal literal and quantize to 0.01.     *)
(* ParseDecimal covers literals [-]digits[.digits] with at most three      *)
(* fractional digits (every literal the model feeds it); everything else   *)
(* is decimal.InvalidOperation.  Its value is counted in thousandths.      *)
(***************************************************************************)
DigitVal(c) ==
    CASE c = "0" -> 0 [] c = "1" -> 1 [] c = "2" -> 2 [] c = "3" -> 3
      [] c = "4" -> 4 [] c = "5" -> 5 [] c = "6" -> 6 [] c = "7" -> 7
      [] c = "8" -> 8 [] c = "9" -> 9 [] OTHER -> -1

IsDigits(s) == \A i \in 1..Len(s) : DigitVal(SubSeq(s, i, i)) >= 0

RECURSIVE DigitsVal(_)
DigitsVal(s) ==
    IF Len(s) = 0 THEN 0
    ELSE 10 * DigitsVal(SubSeq(s, 1, Len(s) - 1)) + DigitVal(SubSeq(s, Len(s), Len(s)))

Abs(n) == IF n < 0 THEN -n ELSE n

ParseDecimal(s) ==
    LET neg   == Len(s) > 0 /\ SubSeq(s, 1, 1) = "-"
        body  == IF neg THEN SubSeq(s, 2, Len(s)) ELSE s
        dots  == {i \in 1..Len(body) : SubSeq(body, i, i) = "."}
        dot   == IF dots = {} THEN Len(body) + 1 ELSE CHOOSE i \in dots : TRUE
        ip    == SubSeq(body, 1, dot - 1)
        fp    == SubSeq(body, dot + 1, Len(body))
        pad   == CASE Len(fp) = 0 -> 1000 [] Len(fp) = 1 -> 100
                   [] Len(fp) = 2 -> 10 [] OTHER -> 1
        ok    == /\ Cardinality(dots) <= 1
                 /\ Len(ip) + Len(fp) > 0
                 /\ Len(fp) <= 3
                 /\ IsDigits(ip) /\ IsDigits(fp)
        mag   == DigitsVal(ip) * 1000 + (IF Len(fp) = 0 THEN 0 ELSE DigitsVal(fp) * pad)
    IN  IF ok THEN [ok |-> TRUE, mills |-> IF neg THEN -mag ELSE mag]
        ELSE [ok |-> FALSE]

\* Decimal.quantize(Decimal('0.01')) under the default context: ROUND_HALF_EVEN.
QuantizeHalfEven(mills) ==
    LET a == Abs(mills)
        q == a \div 10
        r == a % 10
        c == IF r > 5 \/ (r = 5 /\ q % 2 = 1) THEN q + 1 ELSE q
    IN  IF mills < 0 THEN -c ELSE c

(***************************************************************************)
(* create_order.convert_to_decimal: a Decimal is returned as it is, any    *)
(* other value goes through Decimal(str(value)).quantize; a value that is  *)
(* no decimal literal gives Decimal('0.00').                               *)
(***************************************************************************)
Dec(cents) == [dec |-> cents]

convert_to_decimal(value) ==
    IF "dec" \in DOMAIN value THEN value.dec
    ELSE IF IsNum(value) THEN QuantizeHalfEven(value.num)
    ELSE IF ParseDecimal(value.str).ok THEN QuantizeHalfEven(ParseDecimal(value.str).mills)
    ELSE 0

\* int(x): truncation of a number; int() of a string that is no integer
\* literal raises ValueError.
IntRaises(value) == ~IsNum(value) /\ ~(Len(value.str) > 0 /\ IsDigits(value.str))

int(value) ==
    IF IsNum(value)
    THEN (IF value.num < 0 THEN -((-value.num) \div 1000) ELSE value.num \div 1000)
    ELSE DigitsVal(value.str)

(***************************************************************************)
(* create_order.generate_order_id: the UTC second, then 3 characters drawn *)
(* by random.choices from A-Z0-9; the model draws from Suffixes.           *)
(***************************************************************************)
Suffixes == {"A7Q", "ZZ9"}

strftime(now) == "2024010112000" \o ToString(now)

isoformat(now) == "2024-01-01T12:00:0" \o ToString(now)

\* Faulty variant: the timestamp without its seconds ('%Y%m%d%H%M').
generate_order_id_without_seconds(now, random_chars) ==
    "SLMAG-" \o SubSeq(strftime(now), 1, 12) \o "-" \o random_chars

generate_order_id(now, random_chars) == "SLMAG-" \o strftime(now) \o "-" \o random_chars

(***************************************************************************)
(* create_order.prepare_order_record                                       *)
(***************************************************************************)
RECURSIVE SumTotals(_)
SumTotals(items) ==
    IF items = <<>> THEN 0 ELSE Head(items).totalPrice + SumTotals(Tail(items))

\* Faulty variant: the default total is computed from the unit price as
\* given, before it is quantized.
ProcessItemUnquantizedTotal(item) ==
    LET raw         == Get(item, "unitPrice", Num(0))
        unit_price  == convert_to_decimal(raw)
        quantity    == int(Get(item, "quantity", Num(0)))
        raw_mills   == IF "dec" \in DOMAIN raw THEN 10 * raw.dec
                       ELSE IF IsNum(raw) THEN raw.num
                       ELSE IF ParseDecimal(raw.str).ok THEN ParseDecimal(raw.str).mills
                       ELSE 0
        total_price == IF "totalPrice" \in DOMAIN item
                       THEN convert_to_decimal(item.totalPrice)
                       ELSE QuantizeHalfEven(raw_mills * quantity)
        artwork_source == Or(Or(Get(item, "artworkUrl", None), Get(item, "imageUrl", None)),
                             Get(item, "artworkS3Url", ""))
        preview_source == Or(Or(Get(item, "previewUrl", None), Get(item, "previewImageUrl", None)),
                             Get(item, "previewUrlHttps", ""))
    IN  [productType       |-> Get(item, "productType", ""),
         productName       |-> Get(item, "productName", ""),
         size              |-> Get(item, "size", ""),
         shape             |-> Get(item, "shape", ""),
         quantity          |-> quantity,
         unitPrice         |-> unit_price,
         totalPrice        |-> total_price,
         artworkS3Url      |-> artwork_source,
         artworkPreviewUrl |-> preview_source,
         artworkHttpsUrl   |-> Get(item, "artworkUrlHttps", ""),
         previewHttpsUrl   |-> Get(item, "previewUrlHttps", ""),
         instructions      |-> Get(item, "instructions", "")]

ProcessItem(item) ==
    LET unit_price  == convert_to_decimal(Get(item, "unitPrice", Num(0)))
        quantity    == int(Get(item, "quantity", Num(0)))
        total_price == convert_to_decimal(Get(item, "totalPrice", Dec(unit_price * quantity)))
        artwork_source == Or(Or(Get(item, "artworkUrl", None), Get(item, "imageUrl", None)),
                             Get(item, "artworkS3Url", ""))
        preview_source == Or(Or(Get(item, "previewUrl", None), Get(item, "previewImageUrl", None)),
                             Get(item, "previewUrlHttps", ""))
    IN  [productType       |-> Get(item, "productType", ""),
         productName       |-> Get(item, "productName", ""),
         size              |-> Get(item, "size", ""),
         shape             |-> Get(item, "shape", ""),
         quantity          |-> quantity,
         unitPrice         |-> unit_price,
         totalPrice        |-> total_price,
         artworkS3Url      |-> artwork_source,
         artworkPreviewUrl |-> preview_source,
         artworkHttpsUrl   |-> Get(item, "artworkUrlHttps", ""),
         previewHttpsUrl   |-> Get(item, "previewUrlHttps", ""),
         instructions      |-> Get(item, "instructions", "")]

UsesGeneratedId(body) == ~Truthy(Get(body, "orderId", None))

\* Faulty variant: item['quantity'] instead of item.get('quantity', 0), a
\* KeyError when the item has no quantity.
PrepareRaisesOnMissingQuantity(body) ==
    \E i \in 1..Len(Get(body, "items", <<>>)) :
        \/ "quantity" \notin DOMAIN Get(body, "items", <<>>)[i]
        \/ IntRaises(Get(body, "items", <<>>)[i].quantity)

PrepareRaises(body) ==
    \E i \in 1..Len(Get(body, "items", <<>>)) :
        IntRaises(Get(Get(body, "items", <<>>)[i], "quantity", Num(0)))

prepare_order_record(body, now, random_chars) ==
    LET order_id == Or(Get(body, "orderId", None), generate_order_id(now, random_chars))
        raw      == Get(body, "items", <<>>)
        items    == [i \in 1..Len(raw) |-> ProcessItem(raw[i])]
        subtotal == SumTotals(items)
        shipping == convert_to_decimal(Get(body, "shipping", Num(0)))
        total    == convert_to_decimal(Get(body, "total", Dec(subtotal + shipping)))
        customer_info    == Get(body, "customerInfo", EmptyDict)
        shipping_address == Get(body, "shippingAddress",
                                Get(customer_info, "shippingAddress", EmptyDict))
        customer_name    == Or(Get(customer_info, "name", None),
                               Get(customer_info, "fullName", ""))
        street_address   == Or(Get(shipping_address, "street", None),
                               Get(shipping_address, "address", ""))
    IN  [orderId   |-> order_id,
         orderDate |-> Or(Get(body, "orderDate", None), isoformat(now) \o "Z"),
         status    |-> Get(body, "status", "pending_payment"),
         customerInfo |->
            [name  |-> customer_name,
             email |-> Get(customer_info, "email", ""),
             phone |-> Get(customer_info, "phone", ""),
             shippingAddress |->
                [street    |-> street_address,
                 apartment |-> Get(shipping_address, "apartment", ""),
                 city      |-> Get(shipping_address, "city", ""),
                 state     |-> Get(shipping_address, "state", ""),
                 zip       |-> Get(shipping_address, "zip", ""),
                 country   |-> Get(shipping_address, "country", "USA")]],
         items     |-> items,
         subtotal  |-> subtotal,
         shipping  |-> shipping,
         total     |-> total,
         paymentStatus |-> "test_payment",
         paymentInfo   |-> Get(body, "paymentInfo", EmptyDict),
         createdAt |-> isoformat(now) \o "Z",
         updatedAt |-> isoformat(now) \o "Z"]

(***************************************************************************)
(* create_order.lambda_handler, up to the call of save_order_to_dynamodb.  *)
(* An event is [httpMethod, body], body being what json.loads makes of the *)
(* request body: [kind |-> "invalid"] (JSONDecodeError), [kind |->         *)
(* "array"] (a JSON value without .get) or [kind |-> "object", obj |-> d]. *)
(***************************************************************************)
build_cors_response(status_code, body) == [statusCode |-> status_code, body |-> body]

NotRun == [ran |-> FALSE]
Returned(errors) == [ran |-> TRUE, raised |-> FALSE, errors |-> errors]
Raised == [ran |-> TRUE, raised |-> TRUE]

InternalServerError ==
    build_cors_response(500, [success |-> FALSE, error |-> "Internal server error"])

\* Faulty variant: a body that json.loads rejects is taken as the empty
\* object and processing goes on.
HandlerStartLenientParse(ev, now, random_chars) ==
    LET stop(ce, ie, resp) ==
            [pc |-> "done", customer_errors |-> ce, item_errors |-> ie,
             order_record |-> NoRecord, response |-> resp]
    IN
    IF ev.httpMethod = "OPTIONS"
    THEN stop(NotRun, NotRun,
              build_cors_response(200, [message |-> "CORS preflight successful"]))
    ELSE IF ev.body.kind \notin {"object", "invalid"}
    THEN stop(NotRun, NotRun, InternalServerError)
    ELSE
    LET body             == IF ev.body.kind = "invalid" THEN EmptyDict ELSE ev.body.obj
        customer_info    == Get(body, "customerInfo", EmptyDict)
        shipping_address == Get(body, "shippingAddress",
                                Get(customer_info, "shippingAddress", EmptyDict))
        cerrs            == validate_customer_info(customer_info, shipping_address)
        items            == Get(body, "items", <<>>)
        ires             == validate_items(items)
    IN
    IF cerrs /= <<>>
    THEN stop(Returned(cerrs), NotRun,
              build_cors_response(400, [success |-> FALSE,
                                        error   |-> "Invalid customer information",
                                        details |-> cerrs]))
    ELSE IF ires.raised
    THEN stop(Returned(cerrs), Raised, InternalServerError)
    ELSE IF ires.errors /= <<>>
    THEN stop(Returned(cerrs), Returned(ires.errors),
              build_cors_response(400, [success |-> FALSE,
                                        error   |-> "Invalid order items",
                                        details |-> ires.errors]))
    ELSE IF PrepareRaises(body)
    THEN stop(Returned(cerrs), Returned(ires.errors), InternalServerError)
    ELSE [pc |-> "save", customer_errors |-> Returned(cerrs),
          item_errors |-> Returned(ires.errors),
          order_record |-> prepare_order_record(body, now, random_chars),
          response |-> NoRecord]

HandlerStart(ev, now, random_chars) ==
    LET stop(ce, ie, resp) ==
            [pc |-> "done", customer_errors |-> ce, item_errors |-> ie,
             order_record |-> NoRecord, response |-> resp]
    IN
    IF ev.httpMethod = "OPTIONS"
    THEN stop(NotRun, NotRun,
              build_cors_response(200, [message |-> "CORS preflight successful"]))
    ELSE IF ev.body.kind = "invalid"
    THEN stop(NotRun, NotRun,
              build_cors_response(400, [success |-> FALSE,
                                        error |-> "Invalid JSON in request body"]))
    ELSE IF ev.body.kind /= "object"
    THEN stop(NotRun, NotRun, InternalServerError)
    ELSE
    LET body             == ev.body.obj
        customer_info    == Get(body, "customerInfo", EmptyDict)
        shipping_address == Get(body, "shippingAddress",
                                Get(customer_info, "shippingAddress", EmptyDict))
        cerrs            == validate_customer_info(customer_info, shipping_address)
        items            == Get(body, "items", <<>>)
        ires             == validate_items(items)
    IN
    IF cerrs /= <<>>
    THEN stop(Returned(cerrs), NotRun,
              build_cors_response(400, [success |-> FALSE,
                                        error   |-> "Invalid customer information",
                                        details |-> cerrs]))
    ELSE IF ires.raised
    THEN stop(Returned(cerrs), Raised, InternalServerError)
    ELSE IF ires.errors /= <<>>
    THEN stop(Returned(cerrs), Returned(ires.errors),
              build_cors_response(400, [success |-> FALSE,
                                        error   |-> "Invalid order items",
                                        details |-> ires.errors]))
    ELSE IF PrepareRaises(body)
    THEN stop(Returned(cerrs), Returned(ires.errors), InternalServerError)
    ELSE [pc |-> "save", customer_errors |-> Returned(cerrs),
          item_errors |-> Returned(ires.errors),
          order_record |-> prepare_order_record(body, now, random_chars),
          response |-> NoRecord]

\* Whether this run of the handler reaches the call of generate_order_id.
CallsGenerate(ev) ==
    /\ HandlerStart(ev, 0, "").pc = "save"
    /\ UsesGeneratedId(ev.body.obj)

\* A request arrives: one of `events`.
Receive(p, events) ==
    /\ pc[p] = "idle"
    /\ \E ev \in events :
       /\ \E random_chars \in (IF CallsGenerate(ev) THEN Suffixes ELSE {""}) :
             LET r == HandlerStart(ev, clock, random_chars) IN
             /\ pc' = [pc EXCEPT ![p] = r.pc]
             /\ customer_errors' = [customer_errors EXCEPT ![p] = r.customer_errors]
             /\ item_errors' = [item_errors EXCEPT ![p] = r.item_errors]
             /\ order_record' = [order_record EXCEPT ![p] = r.order_record]
             /\ response' = [response EXCEPT ![p] = r.response]
             /\ issued' = IF CallsGenerate(ev)
                          THEN [issued EXCEPT ![p] = generate_order_id(clock, random_chars)]
                          ELSE issued
       /\ event' = [event EXCEPT ![p] = ev]
    /\ UNCHANGED <<puts, invokes, orders, clock>>
    /\ UNCHANGED pricingVars

(***************************************************************************)
(* save_order_to_dynamodb and the handler's two except clauses.  put_item  *)
(* returns, raises ClientError, or raises another exception (a connection  *)
(* failure or a serialisation error are no ClientError).                   *)
(***************************************************************************)
Outcomes == {"ok", "ClientError", "Exception"}

put_item(table, key, item) ==
    [k \in DOMAIN table \cup {key} |-> IF k = key THEN item ELSE table[k]]

\* Faulty variant: a failed put is swallowed and the handler goes on to the
\* notification.
SaveOrderSwallowing(p, outcome) ==
    /\ pc[p] = "save"
    /\ puts' = [puts EXCEPT ![p] = Append(@, outcome)]
    /\ orders' = IF outcome = "ok"
                 THEN put_item(orders, order_record[p].orderId, order_record[p])
                 ELSE orders
    /\ pc' = [pc EXCEPT ![p] = "notify"]
    /\ UNCHANGED <<event, customer_errors, item_errors, order_record, response,
                   invokes, issued, clock>>
    /\ UNCHANGED pricingVars

SaveOrder(p, outcome) ==
    /\ pc[p] = "save"
    /\ puts' = [puts EXCEPT ![p] = Append(@, outcome)]
    /\ CASE outcome = "ok" ->
              /\ orders' = put_item(orders, order_record[p].orderId, order_record[p])
              /\ pc' = [pc EXCEPT ![p] = "notify"]
              /\ UNCHANGED response
         [] outcome = "ClientError" ->
              /\ response' = [response EXCEPT ![p] =
                    build_cors_response(500, [success |-> FALSE,
                                              error |-> "Failed to create order"])]
              /\ pc' = [pc EXCEPT ![p] = "done"]
              /\ UNCHANGED orders
         [] OTHER ->
              /\ response' = [response EXCEPT ![p] = InternalServerError]
              /\ pc' = [pc EXCEPT ![p] = "done"]
              /\ UNCHANGED orders
    /\ UNCHANGED <<event, customer_errors, item_errors, order_record, invokes,
                   issued, clock>>
    /\ UNCHANGED pricingVars

(***************************************************************************)
(* trigger_confirmation_email and the 201 response.  Only ClientError is   *)
(* caught inside trigger_confirmation_email; any other exception of the    *)
(* invoke reaches the handler's `except Exception`.                        *)
(***************************************************************************)
Created(rec, email_triggered) ==
    build_cors_response(201, [success   |-> TRUE,
                              message   |-> "Order created successfully",
                              orderId   |-> rec.orderId,
                              orderDate |-> rec.orderDate,
                              total     |-> rec.total,
                              status    |-> rec.status,
                              emailNotificationSent |-> email_triggered])

TriggerEmail(p, outcome) ==
    /\ pc[p] = "notify"
    /\ invokes' = [invokes EXCEPT ![p] = Append(@, outcome)]
    /\ response' = [response EXCEPT ![p] =
           CASE outcome = "ok"          -> Created(order_record[p], TRUE)
             [] outcome = "ClientError" -> Created(order_record[p], FALSE)
             [] OTHER                   -> InternalServerError]
    /\ pc' = [pc EXCEPT ![p] = "done"]
    /\ UNCHANGED <<event, customer_errors, item_errors, order_record, puts,
                   orders, issued, clock>>
    /\ UNCHANGED pricingVars

Tick ==
    /\ clock < MaxClock
    /\ clock' = clock + 1
    /\ UNCHANGED <<pc, event, customer_errors, item_errors, order_record, response,
                   puts, invokes, orders, issued>>
    /\ UNCHANGED pricingVars

(***************************************************************************)
(* str methods used by the ingestion and the pricing query.                *)
(***************************************************************************)
UpperChars == "ABCDEFGHIJKLMNOPQRSTUVWXYZ"
LowerChars == "abcdefghijklmnopqrstuvwxyz"

CharIndex(alphabet, c) ==
    IF \E i \in 1..Len(alphabet) : SubSeq(alphabet, i, i) = c
    THEN CHOOSE i \in 1..Len(alphabet) : SubSeq(alphabet, i, i) = c
    ELSE 0

MapChar(from, to, c) ==
    IF CharIndex(from, c) = 0 THEN c ELSE SubSeq(to, CharIndex(from, c), CharIndex(from, c))

RECURSIVE MapChars(_, _, _)
MapChars(from, to, s) ==
    IF Len(s) = 0 THEN ""
    ELSE MapChar(from, to, SubSeq(s, 1, 1)) \o MapChars(from, to, SubSeq(s, 2, Len(s)))

upper(s) == MapChars(LowerChars, UpperChars, s)
lower(s) == MapChars(UpperChars, LowerChars, s)

RECURSIVE lstrip(_)
lstrip(s) == IF Len(s) > 0 /\ SubSeq(s, 1, 1) = " " THEN lstrip(SubSeq(s, 2, Len(s))) ELSE s

RECURSIVE rstrip(_)
rstrip(s) ==
    IF Len(s) > 0 /\ SubSeq(s, Len(s), Len(s)) = " "
    THEN rstrip(SubSeq(s, 1, Len(s) - 1)) ELSE s

strip(s) == rstrip(lstrip(s))

\* `sub in s`
In(sub, s) == \E i \in 1..(Len(s) - Len(sub) + 1) : SubSeq(s, i, i + Len(sub) - 1) = sub

(***************************************************************************)
(* database_setup.parse_price_csv.  The file is the list of rows           *)
(* csv.reader yields, each row a list of cell strings.  The result is      *)
(* [sticker_pricing, magnet_pricing], prices in cents.                     *)
(***************************************************************************)
quantities == <<12, 25, 50, 75, 100, 200, 300, 600, 1000, 2000, 3000, 6000, 10000>>

\* Faulty variant: the first cell that fails to parse ends the row.
RECURSIVE RowEntriesUntilBadCell(_, _)
RowEntriesUntilBadCell(row, i) ==
    IF i > Len(quantities) THEN <<>>
    ELSE LET cell == IF i + 1 <= Len(row) THEN strip(row[i + 1]) ELSE ""
         IN  IF cell = "" THEN RowEntriesUntilBadCell(row, i + 1)
             ELSE IF ~ParseDecimal(cell).ok THEN <<>>
             ELSE <<[size     |-> strip(row[1]),
                     quantity |-> quantities[i],
                     price    |-> QuantizeHalfEven(ParseDecimal(cell).mills)]>>
                  \o RowEntriesUntilBadCell(row, i + 1)

RECURSIVE RowEntries(_, _)
RowEntries(row, i) ==
    IF i > Len(quantities) THEN <<>>
    ELSE LET cell == IF i + 1 <= Len(row) THEN strip(row[i + 1]) ELSE ""
             here == IF cell /= "" /\ ParseDecimal(cell).ok
                     THEN <<[size     |-> strip(row[1]),
                             quantity |-> quantities[i],
                             price    |-> QuantizeHalfEven(ParseDecimal(cell).mills)]>>
                     ELSE <<>>
         IN  here \o RowEntries(row, i + 1)

RECURSIVE ParseRows(_, _, _)
ParseRows(rows, current_section, acc) ==
    IF rows = <<>> THEN acc
    ELSE
    LET row  == Head(rows)
        rest == Tail(rows)
    IN
    IF row = <<>> \/ strip(row[1]) = "" THEN ParseRows(rest, current_section, acc)
    ELSE
    LET first_cell == upper(strip(row[1])) IN
    IF In("STICKERS PRICING", first_cell) THEN ParseRows(rest, "stickers", acc)
    ELSE IF In("MAGNETS PRICING", first_cell) THEN ParseRows(rest, "magnets", acc)
    ELSE IF first_cell = "SIZE" THEN ParseRows(rest, current_section, acc)
    ELSE IF current_section /= None /\ In("x", lower(row[1]))
    THEN IF current_section = "stickers"
         THEN ParseRows(rest, current_section,
                        [acc EXCEPT !.sticker_pricing = @ \o RowEntries(row, 1)])
         ELSE ParseRows(rest, current_section,
                        [acc EXCEPT !.magnet_pricing = @ \o RowEntries(row, 1)])
    ELSE ParseRows(rest, current_section, acc)

parse_price_csv(rows) ==
    ParseRows(rows, None, [sticker_pricing |-> <<>>, magnet_pricing |-> <<>>])

(***************************************************************************)
(* database_setup.calculate_fridge_magnet_pricing.  magnet_by_size is a    *)
(* dict of dicts: a repeated (size, quantity) keeps the position of its    *)
(* first entry and the price of its last.                                  *)
(***************************************************************************)
FRIDGE_MAGNET_MARKUP == 15

\* Faulty variant: 4.75x2 derived from 3x3 like the other three sizes.
size_mapping_all_3x3 == << <<"2x3", "3x3">>, <<"2.5x3.5", "3x3">>,
                           <<"4.75x2", "3x3">>, <<"2.5x2.5", "3x3">> >>

size_mapping == << <<"2x3", "3x3">>, <<"2.5x3.5", "3x3">>,
                   <<"4.75x2", "5x5">>, <<"2.5x2.5", "3x3">> >>

\* Decimal.quantize(Decimal('0.01'), rounding=ROUND_HALF_UP) of a value
\* counted in ten-thousandths: ties go away from zero.
QuantizeHalfUp(tenthousandths) ==
    LET c == (Abs(tenthousandths) + 50) \div 100
    IN  IF tenthousandths < 0 THEN -c ELSE c

\* The (quantity, price) items of magnet_by_size[size], in dict order.
MagnetBySize(magnet_pricing, size) ==
    LET idx   == {i \in 1..Len(magnet_pricing) : magnet_pricing[i].size = size}
        first == {i \in idx : \A j \in idx :
                     j < i => magnet_pricing[j].quantity /= magnet_pricing[i].quantity}
        last(q) == CHOOSE i \in idx :
                     /\ magnet_pricing[i].quantity = q
                     /\ \A j \in idx : magnet_pricing[j].quantity = q => j <= i
        RECURSIVE build(_)
        build(k) ==
            IF k > Len(magnet_pricing) THEN <<>>
            ELSE (IF k \in first
                  THEN <<[quantity |-> magnet_pricing[k].quantity,
                          price    |-> magnet_pricing[last(magnet_pricing[k].quantity)].price]>>
                  ELSE <<>>) \o build(k + 1)
    IN  build(1)

\* Faulty variant: quantize under the default context (ROUND_HALF_EVEN).
MarkupPriceDefaultRounding(base_price) ==
    LET x == base_price * (100 + FRIDGE_MAGNET_MARKUP)
        q == Abs(x) \div 100
        r == Abs(x) % 100
        c == IF r > 50 \/ (r = 50 /\ q % 2 = 1) THEN q + 1 ELSE q
    IN  IF x < 0 THEN -c ELSE c

MarkupPrice(base_price) == QuantizeHalfUp(base_price * (100 + FRIDGE_MAGNET_MARKUP))

calculate_fridge_magnet_pricing(magnet_pricing) ==
    LET forSize(m) ==
            LET base == MagnetBySize(magnet_pricing, size_mapping[m][2])
            IN  [k \in 1..Len(base) |->
                    [productSize |-> size_mapping[m][1],
                     quantity    |-> base[k].quantity,
                     price       |-> MarkupPrice(base[k].price)]]
    IN  Flatten([m \in 1..Len(size_mapping) |-> forSize(m)])

(***************************************************************************)
(* The pricing tables (database_setup.TABLES): each item is stored under   *)
(* <<value of the table's HASH attribute, quantity>>.                      *)
(***************************************************************************)
TableNames == {"pricing_stickers", "pricing_magnets", "pricing_fridge_magnets"}

HashKey == [pricing_stickers       |-> "size",
            pricing_magnets        |-> "size",
            pricing_fridge_magnets |-> "productSize"]

ItemKey(table_name, item) == <<item[HashKey[table_name]], item.quantity>>

batch_size == 25

\* The list being written by batch_write_items in each phase of
\* populate_pricing_tables, and the table it goes to.
PhaseTable == [stickers |-> "pricing_stickers",
               magnets  |-> "pricing_magnets",
               fridge   |-> "pricing_fridge_magnets"]

\* One BatchWriteItem request is rejected as a whole (ClientError) when two
\* of its items have the same key: batch_writer is used without
\* overwrite_by_pkeys.
BatchRejected(table_name, items, start) ==
    LET end == IF start + batch_size <= Len(items) THEN start + batch_size ELSE Len(items)
    IN  \E a, b \in (start + 1)..end :
            a /= b /\ ItemKey(table_name, items[a]) = ItemKey(table_name, items[b])

(***************************************************************************)
(* list.sort(key=...) / sorted(..., key=...): a stable sort by keys that   *)
(* are computed once; keys[i] is the key of seq[i], a tuple of numbers     *)
(* compared as Python compares tuples.                                     *)
(***************************************************************************)
RECURSIVE TupleLess(_, _)
TupleLess(a, b) ==
    IF b = <<>> THEN FALSE
    ELSE IF a = <<>> THEN TRUE
    ELSE IF Head(a) /= Head(b) THEN Head(a) < Head(b)
    ELSE TupleLess(Tail(a), Tail(b))

StableSort(seq, keys) ==
    LET n    == Len(seq)
        rank == [i \in 1..n |-> Cardinality({j \in 1..n :
                       \/ TupleLess(keys[j], keys[i])
                       \/ (j < i /\ ~TupleLess(keys[i], keys[j]))})]
    IN  [k \in 1..n |-> seq[CHOOSE i \in 1..n : rank[i] = k - 1]]

\* entries.sort(key=lambda x: x['quantity'])
SortByQuantity(entries) ==
    StableSort(entries, [i \in 1..Len(entries) |-> <<entries[i].quantity>>])

Range(seq) == {seq[i] : i \in 1..Len(seq)}

RECURSIVE SetToSortedSeq(_)
SetToSortedSeq(S) ==
    IF S = {} THEN <<>>
    ELSE LET m == CHOOSE x \in S : \A y \in S : x <= y
         IN  <<m>> \o SetToSortedSeq(S \ {m})

(***************************************************************************)
(* get_pricing.parse_size_for_sorting: the tuple of the dimensions, in     *)
(* thousandths; (float('inf'),) for a token float() rejects.               *)
(***************************************************************************)
RECURSIVE replace(_, _)
replace(s, old) ==
    IF Len(s) < Len(old) THEN s
    ELSE IF SubSeq(s, 1, Len(old)) = old THEN replace(SubSeq(s, Len(old) + 1, Len(s)), old)
    ELSE SubSeq(s, 1, 1) \o replace(SubSeq(s, 2, Len(s)), old)

RECURSIVE split(_, _)
split(s, sep) ==
    IF \E i \in 1..Len(s) : SubSeq(s, i, i) = sep
    THEN LET i == CHOOSE k \in 1..Len(s) :
                     /\ SubSeq(s, k, k) = sep
                     /\ \A m \in 1..(k - 1) : SubSeq(s, m, m) /= sep
         IN  <<SubSeq(s, 1, i - 1)>> \o split(SubSeq(s, i + 1, Len(s)), sep)
    ELSE <<s>>

InfTuple == <<1000000000>>

\* Faulty variant: a token that fails to parse gets the key (0,).
parse_size_for_sorting_zero_key(size) ==
    LET parts == split(strip(replace(replace(lower(size), "inch"), "\"")), "x")
    IN  IF \A i \in 1..Len(parts) : ParseDecimal(strip(parts[i])).ok
        THEN [i \in 1..Len(parts) |-> ParseDecimal(strip(parts[i])).mills]
        ELSE <<0>>

parse_size_for_sorting(size) ==
    LET parts == split(strip(replace(replace(lower(size), "inch"), "\"")), "x")
    IN  IF \A i \in 1..Len(parts) : ParseDecimal(strip(parts[i])).ok
        THEN [i \in 1..Len(parts) |-> ParseDecimal(strip(parts[i])).mills]
        ELSE InfTuple

\* sorted(sizes, key=lambda x: parse_size_for_sorting(x))
SortSizes(sizes) ==
    StableSort(sizes, [i \in 1..Len(sizes) |-> parse_size_for_sorting(sizes[i])])

(***************************************************************************)
(* get_pricing: the table reads.                                           *)
(***************************************************************************)
get_table_name_for_type(product_type) ==
    LET t == lower(product_type)
    IN  CASE t = "sticker" -> "pricing_stickers"
          [] t = "magnet"  -> "pricing_magnets"
          [] t = "fridge"  -> "pricing_fridge_magnets"
          [] OTHER         -> None

\* table.query with KeyConditionExpression '#size = :size': DynamoDB
\* rejects a key condition on an attribute that is not the table's HASH
\* key (ClientError); otherwise the items of that partition, by sort key.
QueryRejected(table_name) == HashKey[table_name] /= "size"

get_pricing_for_size(table, table_name, size) ==
    LET keys == {k \in DOMAIN table : k[1] = size}
        qs   == SetToSortedSeq({k[2] : k \in keys})
    IN  [i \in 1..Len(qs) |-> table[<<size, qs[i]>>]]

\* table.scan: partition after partition in an order DynamoDB chooses
\* (`order` lists the HASH values), each partition by sort key.
Scan(table, order) ==
    Flatten([i \in 1..Len(order) |->
        LET qs == SetToSortedSeq({k[2] : k \in {kk \in DOMAIN table : kk[1] = order[i]}})
        IN  [n \in 1..Len(qs) |-> table[<<order[i], qs[n]>>]]])

\* get_all_pricing: [sizes |-> keys of pricing_data in insertion order,
\*                   by |-> pricing_data], every list sorted by quantity.
get_all_pricing(items) ==
    LET sizeOf(i) == Get(items[i], "size", "unknown")
        firsts    == {i \in 1..Len(items) : \A j \in 1..(i - 1) : sizeOf(j) /= sizeOf(i)}
        RECURSIVE keysFrom(_)
        keysFrom(i) == IF i > Len(items) THEN <<>>
                       ELSE (IF i \in firsts THEN <<sizeOf(i)>> ELSE <<>>) \o keysFrom(i + 1)
        RECURSIVE listOf(_, _)
        listOf(sz, i) ==
            IF i > Len(items) THEN <<>>
            ELSE (IF sizeOf(i) = sz
                  THEN <<[quantity |-> items[i].quantity, price |-> items[i].price]>>
                  ELSE <<>>) \o listOf(sz, i + 1)
    IN  [sizes |-> keysFrom(1),
         by    |-> [sz \in {sizeOf(i) : i \in 1..Len(items)} |->
                        SortByQuantity(listOf(sz, 1))]]

\* {entry['quantity']: entry['price'] for entry in entries}: the last entry
\* of a quantity wins.
MatrixRow(entries) ==
    [q \in {entries[i].quantity : i \in 1..Len(entries)} |->
        entries[CHOOSE i \in 1..Len(entries) :
                    /\ entries[i].quantity = q
                    /\ \A j \in (i + 1)..Len(entries) : entries[j].quantity /= q].price]

format_pricing_response(pricing_data, product_type) ==
    [productType         |-> product_type,
     availableSizes      |-> SortSizes(pricing_data.sizes),
     availableQuantities |->
        SetToSortedSeq(UNION {{pricing_data.by[sz][i].quantity :
                                  i \in 1..Len(pricing_data.by[sz])} :
                              sz \in DOMAIN pricing_data.by}),
     pricingMatrix       |-> [sz \in DOMAIN pricing_data.by |-> MatrixRow(pricing_data.by[sz])],
     pricingBySize       |-> pricing_data.by]

(***************************************************************************)
(* get_pricing.lambda_handler.  query_params is the dict of the query      *)
(* string; `order` is the scan order of the partitions of the table read.  *)
(***************************************************************************)
pricing_handler(tbls, query_params, order) ==
    LET product_type == Get(query_params, "type", None)
        size         == Get(query_params, "size", None)
        table_name   == get_table_name_for_type(product_type)
    IN
    IF ~Truthy(product_type)
    THEN [statusCode |-> 400, body |-> [success |-> FALSE,
                                       error |-> "Missing required parameter: type"]]
    ELSE IF table_name = None
    THEN [statusCode |-> 400, body |-> [success |-> FALSE,
                                       error |-> "Invalid product type: " \o product_type]]
    ELSE IF Truthy(size)
    THEN IF QueryRejected(table_name)
         THEN [statusCode |-> 500, body |-> [success |-> FALSE,
                                            error |-> "Database error occurred"]]
         ELSE LET size_pricing == get_pricing_for_size(tbls[table_name], table_name, size)
              IN  IF size_pricing = <<>>
                  THEN [statusCode |-> 404,
                        body |-> [success |-> FALSE,
                                  error |-> "No pricing found for size: " \o size,
                                  productType |-> product_type]]
                  ELSE [statusCode |-> 200,
                        body |-> [success |-> TRUE,
                                  productType |-> product_type,
                                  size |-> size,
                                  pricing |-> SortByQuantity(
                                      [i \in 1..Len(size_pricing) |->
                                          [quantity |-> size_pricing[i].quantity,
                                           price    |-> size_pricing[i].price]])]]
    ELSE LET pricing_data == get_all_pricing(Scan(tbls[table_name], order))
         IN  IF pricing_data.sizes = <<>>
             THEN [statusCode |-> 404,
                   body |-> [success |-> FALSE,
                             error |-> "No pricing data found for type: " \o product_type]]
             ELSE [statusCode |-> 200,
                   body |-> [success |-> TRUE] @@
                            format_pricing_response(pricing_data, product_type)]

(***************************************************************************)
(* database_setup.main from parse_price_csv on: populate_pricing_tables    *)
(* writes the sticker list, the magnet list, derives the fridge list and   *)
(* writes it.  Every put of batch_write_items is one step; a rejected      *)
(* batch ends the script with the ClientError.                             *)
(***************************************************************************)
CurrentList(j) ==
    CASE jpc[j] = "stickers" -> sticker_list[j]
      [] jpc[j] = "magnets"  -> magnet_list[j]
      [] jpc[j] = "fridge"   -> fridge_list[j]
      [] OTHER               -> <<>>

ParseCsv(j, rows) ==
    /\ jpc[j] = "idle"
    /\ source' = [source EXCEPT ![j] = rows]
    /\ sticker_list' = [sticker_list EXCEPT ![j] = parse_price_csv(rows).sticker_pricing]
    /\ magnet_list' = [magnet_list EXCEPT ![j] = parse_price_csv(rows).magnet_pricing]
    /\ fridge_list' = [fridge_list EXCEPT ![j] = <<>>]
    /\ written' = [written EXCEPT ![j] = 0]
    /\ jpc' = [jpc EXCEPT ![j] = "stickers"]
    /\ UNCHANGED <<tables, answer>>
    /\ UNCHANGED orderVars

WriteItem(j) ==
    /\ jpc[j] \in {"stickers", "magnets", "fridge"}
    /\ written[j] < Len(CurrentList(j))
    /\ LET table_name == PhaseTable[jpc[j]]
           items      == CurrentList(j)
           item       == items[written[j] + 1]
       IN  IF written[j] % batch_size = 0 /\ BatchRejected(table_name, items, written[j])
           THEN /\ jpc' = [jpc EXCEPT ![j] = "failed"]
                /\ UNCHANGED <<tables, written>>
           ELSE /\ tables' = [tables EXCEPT ![table_name] =
                                 put_item(@, ItemKey(table_name, item), item)]
                /\ written' = [written EXCEPT ![j] = @ + 1]
                /\ UNCHANGED jpc
    /\ UNCHANGED <<source, sticker_list, magnet_list, fridge_list, answer>>
    /\ UNCHANGED orderVars

FinishTable(j) ==
    /\ jpc[j] \in {"stickers", "magnets", "fridge"}
    /\ written[j] = Len(CurrentList(j))
    /\ jpc' = [jpc EXCEPT ![j] = CASE jpc[j] = "stickers" -> "magnets"
                                   [] jpc[j] = "magnets"  -> "derive"
                                   [] OTHER               -> "done"]
    /\ written' = [written EXCEPT ![j] = 0]
    /\ UNCHANGED <<tables, source, sticker_list, magnet_list, fridge_list, answer>>
    /\ UNCHANGED orderVars

Derive(j) ==
    /\ jpc[j] = "derive"
    /\ fridge_list' = [fridge_list EXCEPT ![j] =
                             calculate_fridge_magnet_pricing(magnet_list[j])]
    /\ jpc' = [jpc EXCEPT ![j] = "fridge"]
    /\ UNCHANGED <<tables, source, sticker_list, magnet_list, written, answer>>
    /\ UNCHANGED orderVars

\* The script is run again.
Rerun(j) ==
    /\ jpc[j] \in {"done", "failed"}
    /\ jpc' = [jpc EXCEPT ![j] = "idle"]
    /\ UNCHANGED <<tables, source, sticker_list, magnet_list, fridge_list,
                   written, answer>>
    /\ UNCHANGED orderVars

\* One GET /api/pricing request.
HashValues(table) == {k[1] : k \in DOMAIN table}

RECURSIVE SomeOrder(_)
SomeOrder(S) ==
    IF S = {} THEN <<>>
    ELSE LET x == CHOOSE y \in S : TRUE IN <<x>> \o SomeOrder(S \ {x})

Reverse(seq) == [i \in 1..Len(seq) |-> seq[Len(seq) + 1 - i]]

\* The order in which a scan meets the partitions is DynamoDB's choice; the
\* model offers one order and its reverse, so that any two partitions are
\* met in both relative orders.
ScanOrders(tbls, query_params) ==
    LET table_name == get_table_name_for_type(Get(query_params, "type", ""))
    IN  IF table_name = None \/ Truthy(Get(query_params, "size", None))
        THEN {<<>>}
        ELSE {SomeOrder(HashValues(tbls[table_name])),
              Reverse(SomeOrder(HashValues(tbls[table_name])))}

GetPricing(query_params) ==
    /\ \E order \in ScanOrders(tables, query_params) :
          answer' = [query |-> query_params,
                     response |-> pricing_handler(tables, query_params, order)]
    /\ UNCHANGED <<tables, jpc, source, sticker_list, magnet_list, fridge_list,
                   written>>
    /\ UNCHANGED orderVars

(***************************************************************************)
(* Request payloads.  A field option is <<present, value>>; Obj builds the *)
(* JSON object holding the fields that are present.                        *)
(***************************************************************************)
Field(k, opt) == <<k, opt[1], opt[2]>>

Obj(kvs) ==
    [k \in {kvs[i][1] : i \in {j \in 1..Len(kvs) : kvs[j][2]}} |->
        (kvs[CHOOSE i \in 1..Len(kvs) : kvs[i][1] = k])[3]]

Absent == <<FALSE, "">>
Given(v) == <<TRUE, v>>

Post(obj) == [httpMethod |-> "POST", body |-> [kind |-> "object", obj |-> obj]]

GoodCustomer == [name |-> "Ann", email |-> "ann@x.io"]
GoodAddress  == [street |-> "1 Main", city |-> "Troy", state |-> "NY", zip |-> "12180"]
GoodItem     == [productType |-> "die_cut_sticker", size |-> "5x5",
                 quantity |-> Num(50000), unitPrice |-> Num(1430),
                 totalPrice |-> Num(71500), artworkS3Url |-> "s3://b/a.png"]

\* Every combination of the fields validate_customer_info reads, with the
\* address at the top level, nested in customerInfo, or in both places.
CustomerInfos ==
    {Obj(<<Field("name", n), Field("fullName", f), Field("email", e)>>) :
        n \in {Absent, Given(""), Given("Ann")},
        f \in {Absent, Given("Bob")},
        e \in {Absent, Given(""), Given("ann.x.io"), Given("ann@x.io"), Given("ann@x"),
               Given("@x.io")}}

Addresses ==
    {Obj(<<Field("street", s), Field("address", a), Field("city", c),
           Field("state", st), Field("zip", z)>>) :
        s \in {Absent, Given(""), Given("1 Main")},
        a \in {Absent, Given("9 Elm")},
        c \in {Absent, Given(""), Given("Troy")},
        st \in {Absent, Given("NY")},
        z \in {Absent, Given("12180")}}

CustomerPayloads ==
    {Obj(<<Field("customerInfo", Given(ci)), Field("shippingAddress", Given(sa)),
           Field("items", Given(its))>>) :
        ci \in CustomerInfos, sa \in Addresses, its \in {<<GoodItem>>, <<>>}}
    \cup
    {Obj(<<Field("customerInfo",
                 Given(Obj(<<Field("name", Given("Ann")), Field("email", e),
                             Field("shippingAddress", Given(sa))>>))),
           Field("shippingAddress", top),
           Field("items", Given(<<GoodItem>>))>>) :
        e \in {Absent, Given("ann@x.io")}, sa \in Addresses,
        top \in {Absent, Given(GoodAddress)}}

\* One-item and two-item orders over the fields validate_items reads.
Items ==
    {Obj(<<Field("productType", pt), Field("size", Given("5x5")), Field("quantity", q),
           Field("unitPrice", u), Field("totalPrice", t)>>) :
        pt \in {Absent, Given("magnet")},
        q \in {Absent, Given(Num(0)), Given(Num(-1000)), Given(Num(500)),
               Given(Num(50000)), Given(Str("50"))},
        u \in {Absent, Given(Num(1430)), Given(Num(1435)), Given(Num(-10)),
               Given(Str("1.43"))},
        t \in {Absent, Given(Num(71500)), Given(Num(71250)), Given(Num(-5)),
               Given(Str("free"))}}

ItemPayloads ==
    {Obj(<<Field("customerInfo", Given(ci)), Field("shippingAddress", Given(GoodAddress)),
           Field("items", its), Field("orderId", oid)>>) :
        ci \in {GoodCustomer, [name |-> "Ann"]},
        its \in {Absent, Given(<<>>), Given(<<GoodItem, [size |-> "3x3"]>>),
                 Given(<<[quantity |-> Num(2000)], GoodItem>>)}
                \cup {Given(<<it>>) : it \in Items},
        oid \in {Absent, Given(""), Given("ORD-1")}}

OtherEvents ==
    {[httpMethod |-> "OPTIONS", body |-> [kind |-> "invalid"]],
     [httpMethod |-> "POST", body |-> [kind |-> "invalid"]],
     [httpMethod |-> "POST", body |-> [kind |-> "array"]]}

\* The events of one request (specification SpecRequest).
RequestEvents == {Post(b) : b \in CustomerPayloads \cup ItemPayloads} \cup OtherEvents

\* The events of concurrent submissions (specification Spec).
SubmissionEvents ==
    {Post([customerInfo |-> GoodCustomer, shippingAddress |-> GoodAddress,
           items |-> <<GoodItem>>]),
     Post([customerInfo |-> GoodCustomer, shippingAddress |-> GoodAddress,
           items |-> <<GoodItem>>, orderId |-> "ORD-1"]),
     Post([customerInfo |-> [name |-> "Bob", email |-> "bob@x.io"],
           shippingAddress |-> GoodAddress, items |-> <<GoodItem>>,
           orderId |-> "ORD-1"]),
     Post([customerInfo |-> [name |-> "Ann"], shippingAddress |-> GoodAddress,
           items |-> <<>>])}

(***************************************************************************)
(* Specifications.                                                         *)
(***************************************************************************)
NoEvent == [httpMethod |-> "", body |-> [kind |-> "none"]]

InitOrders ==
    /\ pc = [p \in Submissions |-> "idle"]
    /\ event = [p \in Submissions |-> NoEvent]
    /\ customer_errors = [p \in Submissions |-> NotRun]
    /\ item_errors = [p \in Submissions |-> NotRun]
    /\ order_record = [p \in Submissions |-> NoRecord]
    /\ response = [p \in Submissions |-> NoRecord]
    /\ puts = [p \in Submissions |-> <<>>]
    /\ invokes = [p \in Submissions |-> <<>>]
    /\ orders = EmptyDict
    /\ issued = [p \in Submissions |-> None]
    /\ clock = 0

InitPricing ==
    /\ tables = [t \in TableNames |-> EmptyDict]
    /\ jpc = [j \in Jobs |-> "idle"]
    /\ source = [j \in Jobs |-> <<>>]
    /\ sticker_list = [j \in Jobs |-> <<>>]
    /\ magnet_list = [j \in Jobs |-> <<>>]
    /\ fridge_list = [j \in Jobs |-> <<>>]
    /\ written = [j \in Jobs |-> 0]
    /\ answer = NoRecord

Init == InitOrders /\ InitPricing

\* Concurrent order submissions.
Next ==
    \/ \E p \in Submissions : Receive(p, SubmissionEvents)
    \/ \E p \in Submissions, outcome \in Outcomes : SaveOrder(p, outcome)
    \/ \E p \in Submissions, outcome \in Outcomes : TriggerEmail(p, outcome)
    \/ Tick

Spec == Init /\ [][Next]_vars

\* One request, over the whole payload space.
NextRequest ==
    \/ Receive(1, RequestEvents)
    \/ \E outcome \in Outcomes : SaveOrder(1, outcome)
    \/ \E outcome \in Outcomes : TriggerEmail(1, outcome)

SpecRequest == Init /\ [][NextRequest]_vars

(***************************************************************************)
(* Price sources and pricing queries.                                      *)
(***************************************************************************)
HeaderRow == <<"SIZE", "12", "25", "50", "75", "100", "200", "300", "600", "1000",
               "2000", "3000", "6000", "10000">>

SourceA ==
    << <<"STICKERS PRICING">>, HeaderRow,
       <<"2x2", "0.50", "0.45">>,
       <<>>,
       <<"MAGNETS PRICING">>, HeaderRow,
       <<"3x3", "1.24">>,
       <<"5x5", "n/a", " 2.005 ">> >>

\* A later price list: one sticker cell fewer, the magnet prices moved to
\* another breakpoint, no 5x5 row.
SourceB ==
    << <<" stickers pricing (per unit) ">>, HeaderRow,
       <<"2x2", "0.55">>,
       <<"magnets pricing">>, <<"Size", "12", "25">>,
       <<" 3x3 ", "", "1.30">> >>

\* A size row repeated within a section, and a row before the first marker.
SourceC ==
    << <<"4x4", "9.99">>,
       <<"STICKERS PRICING">>, HeaderRow,
       <<"2x2", "0.50">>,
       <<"2x2", "0.60">>,
       <<"MAGNETS PRICING">>, HeaderRow,
       <<"3x3", "1.00">> >>

Sources == {SourceA, SourceB, SourceC}

Queries ==
    {[type |-> "sticker", size |-> "2x2"],
     [type |-> "sticker"],
     [type |-> "magnet", size |-> "3x3"],
     [type |-> "Magnet", size |-> "5x5"],
     [type |-> "magnet"],
     [type |-> "fridge", size |-> "2x3"],
     [type |-> "fridge"],
     [type |-> "fridge", productSize |-> "2x3"],
     [type |-> "poster", size |-> "3x3"],
     [size |-> "3x3"]}

\* Refreshes of the price tables, one at a time, and pricing queries.
NextPricing ==
    \/ \E rows \in Sources : ParseCsv(1, rows)
    \/ WriteItem(1)
    \/ FinishTable(1)
    \/ Derive(1)
    \/ Rerun(1)
    \/ \E query_params \in Queries : GetPricing(query_params)

SpecPricing == Init /\ [][NextPricing]_vars

\* calculate_fridge_magnet_pricing on every magnet list of at most
\* MaxEntries entries.
MaxEntries == 3

MagnetEntries ==
    {[size |-> sz, quantity |-> q, price |-> pr] :
        sz \in {"3x3", "5x5", "4x4"}, q \in {12, 25}, pr \in {124, 30, -30}}

MagnetLists == UNION {[1..n -> MagnetEntries] : n \in 0..MaxEntries}

InitDerive ==
    /\ InitOrders
    /\ tables = [t \in TableNames |-> EmptyDict]
    /\ jpc = [j \in Jobs |-> IF j = 1 THEN "derive" ELSE "idle"]
    /\ source = [j \in Jobs |-> <<>>]
    /\ sticker_list = [j \in Jobs |-> <<>>]
    /\ magnet_list \in {[j \in Jobs |-> IF j = 1 THEN l ELSE <<>>] : l \in MagnetLists}
    /\ fridge_list = [j \in Jobs |-> <<>>]
    /\ written = [j \in Jobs |-> 0]
    /\ answer = NoRecord

NextDerive == Derive(1)

SpecDerive == InitDerive /\ [][NextDerive]_vars

\* parse_price_csv on every file of at most MaxRows rows drawn from Rows.
MaxRows == 3

Rows ==
    {<<>>,
     <<"  ", "1.00">>,
     <<"Stickers Pricing">>,
     <<"MAGNETS PRICING (each)">>,
     <<"Size", "12", "25">>,
     <<"2x2", "0.50", "n/a", " 0.125 ">>,
     <<" 3X3 ", "", "1.005">>,
     <<"large", "9.99">>,
     <<"4x4", "1", "2", "3", "4", "5", "6", "7", "8", "9", "10", "11", "12", "13", "14">>}

Files == UNION {[1..n -> Rows] : n \in 1..MaxRows}

NextParse == \E rows \in Files : ParseCsv(1, rows)

SpecParse == Init /\ [][NextParse]_vars

(***************************************************************************)
(* Properties of order intake.                                             *)
(***************************************************************************)
\* The requirements on a parsed payload, read off the two validators.
Requirements == <<"name", "email", "address", "city", "state", "zip">>

Filled(d, k) == k \in DOMAIN d /\ d[k] /= ""

Violates(req, customer_info, shipping_address) ==
    CASE req = "name"    -> ~(Filled(customer_info, "name") \/ Filled(customer_info, "fullName"))
      [] req = "email"   -> ~(Filled(customer_info, "email")
                              /\ Contains(customer_info["email"], "@"))
      [] req = "address" -> ~(Filled(shipping_address, "street")
                              \/ Filled(shipping_address, "address"))
      [] OTHER           -> ~Filled(shipping_address, req)

ErrorsAbout(req) ==
    CASE req = "name"  -> {"Missing required customer field: name"}
      [] req = "email" -> {"Missing required customer field: email", "Invalid email format"}
      [] OTHER         -> {"Missing required shipping field: " \o req}

CustomerInfoOf(body) == IF "customerInfo" \in DOMAIN body THEN body.customerInfo ELSE EmptyDict

ShippingAddressOf(body) ==
    IF "shippingAddress" \in DOMAIN body THEN body.shippingAddress
    ELSE IF "shippingAddress" \in DOMAIN CustomerInfoOf(body)
         THEN CustomerInfoOf(body).shippingAddress
         ELSE EmptyDict

ViolatedRequirements(body) ==
    {i \in 1..Len(Requirements) :
        Violates(Requirements[i], CustomerInfoOf(body), ShippingAddressOf(body))}

RequiredItemFields == {"productType", "size", "quantity", "unitPrice", "totalPrice"}

ItemViolates(item) ==
    \/ RequiredItemFields \ DOMAIN item /= {}
    \/ ~IsNum(item.quantity)
    \/ item.quantity.num <= 0
    \/ (IsNum(item.unitPrice) /\ item.unitPrice.num < 0)
    \/ (IsNum(item.totalPrice) /\ item.totalPrice.num < 0)

ItemsViolate(body) ==
    \/ "items" \notin DOMAIN body
    \/ body.items = <<>>
    \/ \E i \in 1..Len(body.items) : ItemViolates(body.items[i])

\* The submissions whose request body parsed to a JSON object.
Parsed == {p \in Submissions : pc[p] /= "idle" /\ event[p].body.kind = "object"}

Status(p) == IF "statusCode" \in DOMAIN response[p] THEN response[p].statusCode ELSE 0

\* C1: the put and the notification happen only when both validators
\* returned the empty list, and every payload with at least one validation
\* error (a violated customer, address or item requirement) is answered 400
\* with neither the orders store nor the notification touched.
C1_ValidationErrorRejected ==
    \A p \in Parsed :
        /\ puts[p] /= <<>> =>
              customer_errors[p] = Returned(<<>>) /\ item_errors[p] = Returned(<<>>)
        /\ invokes[p] /= <<>> =>
              customer_errors[p] = Returned(<<>>) /\ item_errors[p] = Returned(<<>>)
        /\ (ViolatedRequirements(event[p].body.obj) /= {} \/ ItemsViolate(event[p].body.obj)) =>
              Status(p) = 400 /\ puts[p] = <<>> /\ invokes[p] = <<>>

\* C2: a submission whose record was persisted is answered 201 whatever the
\* notification did; a failed notification shows only as
\* emailNotificationSent = false and leaves the persisted record as it is.
C2_PersistedIsAccepted ==
    \A p \in Submissions :
        (puts[p] = <<"ok">> /\ pc[p] = "done") =>
            /\ Status(p) = 201
            /\ response[p].body.emailNotificationSent = (invokes[p] = <<"ok">>)
            /\ order_record[p].orderId \in DOMAIN orders
            /\ orders[order_record[p].orderId] = order_record[p]

\* C3: within one submission the notification is attempted at most once and
\* only after the put returned successfully; a failed put is answered 500,
\* is followed by no notification, and is not retried.
C3_NotifyOnceAfterPut ==
    \A p \in Submissions :
        /\ Len(invokes[p]) <= 1
        /\ Len(puts[p]) <= 1
        /\ invokes[p] /= <<>> =>
              puts[p] = <<"ok">> /\ order_record[p].orderId \in DOMAIN orders
        /\ (puts[p] /= <<>> /\ puts[p][1] /= "ok") =>
              pc[p] = "done" /\ Status(p) = 500 /\ invokes[p] = <<>>

\* One submission was notified and another one's put failed.
C3_Witness ==
    \E p, q \in Submissions :
        /\ invokes[p] /= <<>>
        /\ puts[q] /= <<>> /\ puts[q][1] /= "ok" /\ Status(q) = 500

Accepted == {p \in Submissions : puts[p] = <<"ok">>}

\* C4: the store holds one record per accepted submission, each under its
\* own orderId and as that submission wrote it.
C4_OneRecordPerAccepted ==
    /\ Cardinality(DOMAIN orders) = Cardinality(Accepted)
    /\ \A p \in Accepted : orders[order_record[p].orderId] = order_record[p]

\* C5: any two calls of generate_order_id return different values.
C5_GeneratedIdsDiffer ==
    \A p, q \in Submissions :
        (p /= q /\ issued[p] /= None /\ issued[q] /= None) => issued[p] /= issued[q]

\* C6: for a parsed payload that violates both the customer/address check
\* and the items check, validate_items is run and the rejection lists the
\* errors of both checks.
C6_BothChecksReported ==
    \A p \in Parsed :
        (ViolatedRequirements(event[p].body.obj) /= {} /\ ItemsViolate(event[p].body.obj)) =>
            /\ Status(p) = 400
            /\ customer_errors[p] /= NotRun
            /\ item_errors[p] /= NotRun
            /\ item_errors[p] /= Raised
            /\ item_errors[p].errors /= <<>>
            /\ Range(customer_errors[p].errors) \subseteq Range(response[p].body.details)
            /\ Range(item_errors[p].errors) \subseteq Range(response[p].body.details)

\* C7: validate_customer_info returns one error for each violated
\* requirement among name, email, address line, city, state and zip, in that
\* order, and nothing else (so the empty list exactly when none is violated).
C7_OneErrorPerViolation ==
    \A p \in Parsed :
        customer_errors[p] /= NotRun =>
            LET errs == customer_errors[p].errors
                V    == ViolatedRequirements(event[p].body.obj)
                nth(k) == CHOOSE i \in V : Cardinality({j \in V : j < i}) = k - 1
            IN  /\ Len(errs) = Cardinality(V)
                /\ \A k \in 1..Len(errs) : errs[k] \in ErrorsAbout(Requirements[nth(k)])

\* A payload missing exactly email and city was validated: two errors.
C7_Witness ==
    \E p \in Parsed :
        /\ ViolatedRequirements(event[p].body.obj) = {2, 4}
        /\ "email" \notin DOMAIN CustomerInfoOf(event[p].body.obj)
        /\ "city" \notin DOMAIN ShippingAddressOf(event[p].body.obj)
        /\ customer_errors[p] = Returned(<<"Missing required customer field: email",
                                           "Missing required shipping field: city">>)

\* The same cells as SourceA at other prices.
SourceD ==
    << <<"STICKERS PRICING">>, HeaderRow,
       <<"2x2", "0.70", "0.65">>,
       <<"MAGNETS PRICING">>, HeaderRow,
       <<"3x3", "1.50">>,
       <<"5x5", "", "2.50">> >>

\* Two refresh jobs started against empty tables, each run once.
NextRefresh ==
    \/ \E j \in Jobs, rows \in {SourceA, SourceD} : ParseCsv(j, rows)
    \/ \E j \in Jobs : WriteItem(j)
    \/ \E j \in Jobs : FinishTable(j)
    \/ \E j \in Jobs : Derive(j)

SpecRefresh == Init /\ [][NextRefresh]_vars

\* A price list whose sticker sizes are not in numeric order, two of them
\* no sizes at all.
SourceE ==
    << <<"STICKERS PRICING">>, HeaderRow,
       <<"10x10", "9.00">>,
       <<"box", "1.00">>,
       <<"2.5x2.5", "0.80">>,
       <<"4x", "2.00">>,
       <<"2x2", "0.50", "0.45">>,
       <<"MAGNETS PRICING">>, HeaderRow,
       <<"5x5", "2.00">>,
       <<"3x3", "1.24">> >>

ListingQueries == {[type |-> "sticker"], [type |-> "magnet"], [type |-> "FRIDGE"]}

\* One refresh from SourceE, and full listings asked for at any time.
NextListing ==
    \/ ParseCsv(1, SourceE)
    \/ WriteItem(1)
    \/ FinishTable(1)
    \/ Derive(1)
    \/ \E query_params \in ListingQueries : GetPricing(query_params)

SpecListing == Init /\ [][NextListing]_vars

(***************************************************************************)
(* prepare_order_record as a function: applied to a payload in which the   *)
(* aliased fields are given in every combination, then applied to the      *)
(* record it returned.  order_record[1] is the first result,               *)
(* order_record[2] the result of the second application.                   *)
(***************************************************************************)
AliasCustomers ==
    {Obj(<<Field("name", n), Field("fullName", f), Field("email", Given("ann@x.io")),
           Field("phone", Given("555-0100")), Field("shippingAddress", sa)>>) :
        n \in {Absent, Given(""), Given("Ann")},
        f \in {Absent, Given("Bob")},
        sa \in {Absent, Given([street |-> "7 Oak", city |-> "Rome", state |-> "NY",
                               zip |-> "13440", country |-> "US"]),
                Given([address |-> "8 Ash", city |-> "Rome"])}}

AliasAddresses ==
    {Obj(<<Field("street", s), Field("address", a), Field("city", Given("Troy")),
           Field("state", Given("NY")), Field("zip", Given("12180"))>>) :
        s \in {Absent, Given(""), Given("1 Main")},
        a \in {Absent, Given("9 Elm")}}
    \cup {EmptyDict}

AliasItems ==
    {Obj(<<Field("productType", Given("magnet")), Field("size", Given("3x3")),
           Field("quantity", Given(Num(12000))), Field("unitPrice", Given(Num(1240))),
           Field("artworkUrl", au), Field("imageUrl", iu), Field("artworkS3Url", as),
           Field("previewUrl", pu), Field("previewImageUrl", pi),
           Field("previewUrlHttps", ph), Field("artworkUrlHttps", ah)>>) :
        au \in {Absent, Given(""), Given("https://a/art.png")},
        iu \in {Absent, Given("https://a/image.png")},
        as \in {Absent, Given("s3://a/art.png")},
        pu \in {Absent, Given(""), Given("https://a/prev.png")},
        pi \in {Absent, Given("https://a/previmg.png")},
        ph \in {Absent, Given("https://a/prevs.png")},
        ah \in {Absent, Given("https://a/arts.png")}}

AliasPayloads ==
    {Obj(<<Field("customerInfo", Given(ci)), Field("shippingAddress", top),
           Field("items", Given(<<GoodItem>>)), Field("shipping", Given(Num(5990)))>>) :
        ci \in AliasCustomers, top \in {Absent} \cup {Given(sa) : sa \in AliasAddresses}}
    \cup
    {Obj(<<Field("orderId", Given("ORD-1")),
           Field("customerInfo",
                 Given([name |-> "Ann", fullName |-> "Bob", email |-> "ann@x.io",
                        shippingAddress |-> [street |-> "7 Oak", city |-> "Rome"]])),
           Field("shippingAddress",
                 Given([street |-> "1 Main", address |-> "9 Elm", city |-> "Troy",
                        state |-> "NY", zip |-> "12180"])),
           Field("items", Given(<<it, GoodItem>>))>>) :
        it \in AliasItems}

\* Items and orders over the amounts prepare_order_record reads: unit
\* price, quantity and total given as numbers or strings or left out, with
\* and without the order's shipping, subtotal and total.
PricedItems ==
    {Obj(<<Field("productType", Given("sticker")), Field("unitPrice", u),
           Field("quantity", q), Field("totalPrice", t)>>) :
        u \in {Absent, Given(Num(1430)), Given(Num(1435)), Given(Str("1.43"))},
        q \in {Absent, Given(Num(50000)), Given(Num(2900)), Given(Str("3")),
               Given(Str("abc"))},
        t \in {Absent, Given(Num(71250)), Given(Str("free"))}}

PricedPayloads ==
    {Obj(<<Field("items", Given(<<it, GoodItem>>)), Field("shipping", sh),
           Field("subtotal", st[1]), Field("total", st[2])>>) :
        it \in PricedItems,
        sh \in {Absent, Given(Num(5990)), Given(Num(-1000))},
        st \in {<<Absent, Absent>>, <<Absent, Given(Num(1000))>>,
                <<Given(Num(1000)), Given(Num(1000))>>}}
    \cup {EmptyDict, [items |-> <<EmptyDict>>], [customerInfo |-> EmptyDict, items |-> <<>>]}

PreparePayloads == AliasPayloads \cup PricedPayloads

\* The record prepare_order_record returned, as the dict it is: quantity an
\* int, the prices Decimals.
AsBody(record) ==
    [k \in DOMAIN record |->
        CASE k = "items" ->
               [i \in 1..Len(record.items) |->
                   [f \in DOMAIN record.items[i] |->
                       CASE f = "quantity" -> Num(1000 * record.items[i].quantity)
                         [] f \in {"unitPrice", "totalPrice"} -> Dec(record.items[i][f])
                         [] OTHER -> record.items[i][f]]]
          [] k \in {"subtotal", "shipping", "total"} -> Dec(record[k])
          [] OTHER -> record[k]]

Prepare(bodies) ==
    /\ pc[1] = "idle"
    /\ \E body \in bodies :
          /\ IF PrepareRaises(body)
             THEN /\ pc' = [pc EXCEPT ![1] = "raised"]
                  /\ UNCHANGED order_record
             ELSE /\ pc' = [pc EXCEPT ![1] = "prepared"]
                  /\ \E random_chars \in (IF UsesGeneratedId(body) THEN Suffixes ELSE {""}) :
                        order_record' = [order_record EXCEPT
                                            ![1] = prepare_order_record(body, clock, random_chars)]
          /\ event' = [event EXCEPT ![1] = Post(body)]
    /\ UNCHANGED <<customer_errors, item_errors, response, puts, invokes, orders,
                   issued, clock>>
    /\ UNCHANGED pricingVars

PrepareAgain ==
    /\ pc[1] = "prepared"
    /\ pc[2] = "idle"
    /\ order_record' = [order_record EXCEPT
                           ![2] = prepare_order_record(AsBody(order_record[1]), clock, "")]
    /\ pc' = [pc EXCEPT ![2] = "prepared"]
    /\ UNCHANGED <<event, customer_errors, item_errors, response, puts, invokes,
                   orders, issued, clock>>
    /\ UNCHANGED pricingVars

NextPrepare ==
    \/ Prepare(PreparePayloads)
    \/ PrepareAgain
    \/ Tick

SpecPrepare == Init /\ [][NextPrepare]_vars

(***************************************************************************)
(* Properties of the price tables.                                         *)
(***************************************************************************)
\* c cents is x ten-thousandths rounded to the cent, ties away from zero.
IsRoundHalfUp(c, x) ==
    /\ 100 * Abs(c) - 50 <= Abs(x)
    /\ Abs(x) < 100 * Abs(c) + 50
    /\ (c > 0 => x > 0)
    /\ (c < 0 => x < 0)

\* The price the magnet list gives (size, quantity): that of its last entry.
BasePrices(magnet_pricing, size, quantity) ==
    {magnet_pricing[i].price : i \in
        {k \in 1..Len(magnet_pricing) :
            /\ magnet_pricing[k].size = size
            /\ magnet_pricing[k].quantity = quantity
            /\ \A m \in (k + 1)..Len(magnet_pricing) :
                  ~(magnet_pricing[m].size = size /\ magnet_pricing[m].quantity = quantity)}}

FridgeBase == [f \in {"2x3", "2.5x3.5", "2.5x2.5"} |-> "3x3"] @@ [f \in {"4.75x2"} |-> "5x5"]

\* C8: for every fridge size and every quantity at which its base magnet
\* size has a price P, the derived list holds for that (fridge size,
\* quantity) the price round_half_up(P x 1.15) at 2 decimals.
C8_FridgeMarkup ==
    jpc[1] = "fridge" =>
        \A f \in DOMAIN FridgeBase, q \in {12, 25} :
            \A P \in BasePrices(magnet_list[1], FridgeBase[f], q) :
                LET emitted == {i \in 1..Len(fridge_list[1]) :
                                   /\ fridge_list[1][i].productSize = f
                                   /\ fridge_list[1][i].quantity = q}
                IN  /\ emitted /= {}
                    /\ \A i \in emitted : IsRoundHalfUp(fridge_list[1][i].price, P * 115)

\* 1.24 for 3x3 at some quantity gave 1.43 for 2x3 at that quantity.
C8_Witness ==
    /\ jpc[1] = "fridge"
    /\ \E q \in {12, 25} :
          /\ BasePrices(magnet_list[1], "3x3", q) = {124}
          /\ \E i \in 1..Len(fridge_list[1]) :
                fridge_list[1][i] = [productSize |-> "2x3", quantity |-> q, price |-> 143]

\* No size row is repeated within a section of the sticker and magnet lists.
EachSizeOnce(j) ==
    \A l \in {sticker_list[j], magnet_list[j]} :
        \A a, b \in 1..Len(l) :
            (a /= b /\ l[a].size = l[b].size) => l[a].quantity /= l[b].quantity

Category == [sticker |-> "pricing_stickers", magnet |-> "pricing_magnets"]

CellsOf(j, cat) == Range(IF cat = "sticker" THEN sticker_list[j] ELSE magnet_list[j])

\* The entries the pricing query returns for (type, size): none unless 200.
QueryEntries(type, size) ==
    LET resp == pricing_handler(tables, [type |-> type, size |-> size], <<>>)
    IN  IF resp.statusCode = 200 THEN Range(resp.body.pricing) ELSE {}

\* The pricingMatrix of every full listing the query may return for type.
Matrices(type) ==
    {LET resp == pricing_handler(tables, [type |-> type], order)
     IN  IF resp.statusCode = 200 THEN resp.body.pricingMatrix ELSE EmptyDict :
        order \in ScanOrders(tables, [type |-> type])}

MatrixHas(matrix, size, quantity) ==
    size \in DOMAIN matrix /\ quantity \in DOMAIN matrix[size]

\* C9: after ingestion of a source with each size at most once per section,
\* the pricing query returns for a sticker or magnet (size, quantity) the
\* quantized value of the source cell when that cell is present, in the
\* per-size answer and in pricingMatrix, and no entry when it is not.
C9_QueryReturnsSourceCells ==
    (jpc[1] = "done" /\ EachSizeOnce(1)) =>
        \A cat \in DOMAIN Category :
            LET cells == CellsOf(1, cat)
                keys  == DOMAIN tables[Category[cat]] \cup {<<c.size, c.quantity>> : c \in cells}
            IN  \A k \in keys :
                  LET here == {c \in cells : c.size = k[1] /\ c.quantity = k[2]}
                      got  == {e \in QueryEntries(cat, k[1]) : e.quantity = k[2]}
                  IN  /\ got = {[quantity |-> c.quantity, price |-> c.price] : c \in here}
                      /\ \A matrix \in Matrices(cat) :
                            IF here = {}
                            THEN ~MatrixHas(matrix, k[1], k[2])
                            ELSE /\ MatrixHas(matrix, k[1], k[2])
                                 /\ \A c \in here : matrix[k[1]][k[2]] = c.price

\* The derived (quantity, price) entries of one fridge size.
DerivedEntries(j, f) ==
    {[quantity |-> e.quantity, price |-> e.price] :
        e \in {x \in Range(fridge_list[j]) : x.productSize = f}}

\* C10: after a refresh, for every fridge size with derived entries the
\* query type=fridge with that size answers 200 with exactly those entries
\* sorted by quantity ascending, and the full fridge listing has the size in
\* availableSizes with its own row in pricingMatrix.
C10_FridgeQuery ==
    jpc[1] = "done" =>
        \A f \in {e.productSize : e \in Range(fridge_list[1])} :
            LET resp == pricing_handler(tables, [type |-> "fridge", size |-> f], <<>>)
            IN  /\ resp.statusCode = 200
                /\ Range(resp.body.pricing) = DerivedEntries(1, f)
                /\ \A a, b \in 1..Len(resp.body.pricing) :
                      a < b => resp.body.pricing[a].quantity < resp.body.pricing[b].quantity
                /\ \A order \in ScanOrders(tables, [type |-> "fridge"]) :
                      LET full == pricing_handler(tables, [type |-> "fridge"], order)
                      IN  /\ full.statusCode = 200
                          /\ f \in Range(full.body.availableSizes)
                          /\ f \in DOMAIN full.body.pricingMatrix
                          /\ \A e \in DerivedEntries(1, f) :
                                /\ e.quantity \in DOMAIN full.body.pricingMatrix[f]
                                /\ full.body.pricingMatrix[f][e.quantity] = e.price

(***************************************************************************)
(* Properties of parse_price_csv.                                          *)
(***************************************************************************)
Breakpoints == <<12, 25, 50, 75, 100, 200, 300, 600, 1000, 2000, 3000, 6000, 10000>>

IsBlankRow(row) == row = <<>> \/ strip(row[1]) = ""

\* The section a row opens, None for a row that is no section marker.
MarkerOf(row) ==
    IF IsBlankRow(row) THEN None
    ELSE IF In("STICKERS PRICING", upper(strip(row[1]))) THEN "stickers"
    ELSE IF In("MAGNETS PRICING", upper(strip(row[1]))) THEN "magnets"
    ELSE None

\* The size rows of a section: the rows after a marker of that section with
\* no other marker in between, whose first cell holds an x (in either case)
\* and which are neither blank, nor a marker, nor the SIZE header.
SizeRows(rows, section) ==
    LET marker == [r \in 1..Len(rows) |-> MarkerOf(rows[r])]
    IN  {r \in 1..Len(rows) :
            /\ \E m \in 1..(r - 1) :
                  /\ marker[m] = section
                  /\ \A n \in (m + 1)..(r - 1) : marker[n] = None
            /\ marker[r] = None
            /\ ~IsBlankRow(rows[r])
            /\ upper(strip(rows[r][1])) /= "SIZE"
            /\ (Contains(rows[r][1], "x") \/ Contains(rows[r][1], "X"))}

\* The cells <<r, i>> of a section that hold a price.
PriceCells(rows, section) ==
    {c \in SizeRows(rows, section) \X (1..Len(Breakpoints)) :
        /\ c[2] + 1 <= Len(rows[c[1]])
        /\ strip(rows[c[1]][c[2] + 1]) /= ""
        /\ ParseDecimal(strip(rows[c[1]][c[2] + 1])).ok}

CellBefore(a, b) == a[1] < b[1] \/ (a[1] = b[1] /\ a[2] < b[2])

CellValue(rows, c) == ParseDecimal(strip(rows[c[1]][c[2] + 1])).mills

ParsedList(j, section) == IF section = "stickers" THEN sticker_list[j] ELSE magnet_list[j]

\* C11: parse_price_csv returns for each section exactly one entry
\* (size, b_i, price_i) per priced cell i of a size row of that section, in
\* file order; blank rows, SIZE rows, rows before the first marker and cells
\* that fail to parse contribute nothing and drop nothing else.
C11_ParseReturnsPricedCells ==
    jpc[1] /= "idle" =>
        \A section \in {"stickers", "magnets"} :
            LET list  == ParsedList(1, section)
                cells == PriceCells(source[1], section)
                place == [c \in cells |-> 1 + Cardinality({d \in cells : CellBefore(d, c)})]
            IN  /\ Len(list) = Cardinality(cells)
                /\ \A c \in cells :
                      /\ list[place[c]].size = strip(source[1][c[1]][1])
                      /\ list[place[c]].quantity = Breakpoints[c[2]]
                      /\ 10 * list[place[c]].price - CellValue(source[1], c) \in -5..5

\* A size row before the first marker, then a sticker section whose size
\* row has an unparseable cell between two priced ones.
C11_Witness ==
    /\ jpc[1] /= "idle"
    /\ source[1] = << <<"2x2", "0.50", "n/a", " 0.125 ">>,
                      <<"Stickers Pricing">>,
                      <<"2x2", "0.50", "n/a", " 0.125 ">> >>
    /\ Len(sticker_list[1]) = 2
    /\ sticker_list[1][2].quantity = 50
    /\ magnet_list[1] = <<>>

\* c cents is x thousandths rounded to the cent, ties away from zero.
IsCentHalfUp(c, x) ==
    /\ 10 * Abs(c) - 5 <= Abs(x)
    /\ Abs(x) < 10 * Abs(c) + 5
    /\ (c > 0 => x > 0)
    /\ (c < 0 => x < 0)

\* C12: every entry of parse_price_csv carries its cell's value quantized
\* to 2 decimals with round-half-up (a tie goes away from zero).
C12_ParseRoundsHalfUp ==
    jpc[1] /= "idle" =>
        \A section \in {"stickers", "magnets"} :
            LET list  == ParsedList(1, section)
                cells == PriceCells(source[1], section)
                place == [c \in cells |-> 1 + Cardinality({d \in cells : CellBefore(d, c)})]
            IN  /\ Len(list) = Cardinality(cells)
                /\ \A c \in cells :
                      IsCentHalfUp(list[place[c]].price, CellValue(source[1], c))

\* The entries of a magnet list whose size is a mapped base size.
OfBaseSizes(magnet_pricing) ==
    SelectSeq(magnet_pricing, LAMBDA e : e.size \in {FridgeBase[f] : f \in DOMAIN FridgeBase})

\* C13: the derived list has an entry for (fridge size, q) exactly when the
\* fridge size is one of the 4 mapped sizes and the magnet list has an entry
\* for (its base size, q); a base size without magnet entries gives no
\* entries, and magnet entries of other sizes leave the output as it is
\* without them.
C13_FridgeEntriesExactlyMapped ==
    jpc[1] = "fridge" =>
        LET has(size, q) == \E i \in 1..Len(magnet_list[1]) :
                               /\ magnet_list[1][i].size = size
                               /\ magnet_list[1][i].quantity = q
            out(f, q)    == \E i \in 1..Len(fridge_list[1]) :
                               /\ fridge_list[1][i].productSize = f
                               /\ fridge_list[1][i].quantity = q
        IN  /\ \A i \in 1..Len(fridge_list[1]) :
                  fridge_list[1][i].productSize \in DOMAIN FridgeBase
            /\ \A f \in DOMAIN FridgeBase, q \in {12, 25} :
                  out(f, q) <=> has(FridgeBase[f], q)
            /\ fridge_list[1] = calculate_fridge_magnet_pricing(OfBaseSizes(magnet_list[1]))

\* A list with 3x3 and 4x4 entries and no 5x5 entry gave entries for the
\* three sizes based on 3x3 and none for 4.75x2.
C13_Witness ==
    /\ jpc[1] = "fridge"
    /\ {magnet_list[1][i].size : i \in 1..Len(magnet_list[1])} = {"3x3", "4x4"}
    /\ {fridge_list[1][i].productSize : i \in 1..Len(fridge_list[1])}
          = {"2x3", "2.5x3.5", "2.5x2.5"}

\* C14: in the output of one ingestion (the sticker and magnet lists of
\* parse_price_csv, the fridge list derived from them) no two entries of
\* one category share the same (size, quantity) pair.
C14_OneEntryPerCell ==
    /\ \A l \in {sticker_list[1], magnet_list[1]} :
          \A a, b \in 1..Len(l) :
              (l[a].size = l[b].size /\ l[a].quantity = l[b].quantity) => a = b
    /\ \A a, b \in 1..Len(fridge_list[1]) :
          (/\ fridge_list[1][a].productSize = fridge_list[1][b].productSize
           /\ fridge_list[1][a].quantity = fridge_list[1][b].quantity) => a = b

\* The list a job wrote to each table.
ListFor(j) == [pricing_stickers       |-> sticker_list[j],
               pricing_magnets        |-> magnet_list[j],
               pricing_fridge_magnets |-> fridge_list[j]]

Content(table) == {table[k] : k \in DOMAIN table}

\* C15: after a refresh has completed, each pricing table holds exactly the
\* entries of that refresh; an entry an earlier ingestion wrote for a
\* (size, quantity) the latest source no longer has is absent.
C15_RefreshReplaces ==
    jpc[1] = "done" =>
        \A t \in TableNames : Content(tables[t]) = Range(ListFor(1)[t])

\* C16: once two concurrent refresh jobs have both finished, each pricing
\* table equals the complete output of exactly one of the two jobs, never
\* a mixture of entries of both.
C16_LastWriterWinsPerTable ==
    (\A j \in Jobs : jpc[j] = "done") =>
        \A t \in TableNames :
            \E j \in Jobs : Content(tables[t]) = Range(ListFor(j)[t])

(***************************************************************************)
(* Properties of the order record.                                         *)
(***************************************************************************)
\* The value of the first of `aliases` that d gives with a value other than
\* the empty string; the empty string when there is none.
RECURSIVE FirstPresent(_, _)
FirstPresent(d, aliases) ==
    IF aliases = <<>> THEN ""
    ELSE IF Head(aliases) \in DOMAIN d /\ d[Head(aliases)] /= ""
         THEN d[Head(aliases)]
         ELSE FirstPresent(d, Tail(aliases))

\* The shipping address object of a payload: the top-level one when the
\* payload has one, else the one nested in customerInfo, else none.
AddressObject(body) ==
    IF "shippingAddress" \in DOMAIN body THEN body.shippingAddress
    ELSE IF "customerInfo" \in DOMAIN body /\ "shippingAddress" \in DOMAIN body.customerInfo
         THEN body.customerInfo.shippingAddress
         ELSE EmptyDict

\* C17: prepare_order_record resolves each aliased field to the first alias
\* present, in the documented order, also when several are present with
\* different values: name then fullName; top-level shippingAddress then
\* customerInfo.shippingAddress, within it street then address; artworkUrl
\* then imageUrl then artworkS3Url; previewUrl then previewImageUrl then
\* previewUrlHttps.
C17_FirstAliasWins ==
    pc[1] = "prepared" =>
        LET body  == event[1].body.obj
            rec   == order_record[1]
            addr  == AddressObject(body)
            items == Get(body, "items", <<>>)
        IN  /\ rec.customerInfo.name =
                  FirstPresent(Get(body, "customerInfo", EmptyDict), <<"name", "fullName">>)
            /\ rec.customerInfo.shippingAddress.street = FirstPresent(addr, <<"street", "address">>)
            /\ \A f \in {"city", "state", "zip"} :
                  rec.customerInfo.shippingAddress[f] = FirstPresent(addr, <<f>>)
            /\ Len(rec.items) = Len(items)
            /\ \A i \in 1..Len(items) :
                  /\ rec.items[i].artworkS3Url =
                        FirstPresent(items[i], <<"artworkUrl", "imageUrl", "artworkS3Url">>)
                  /\ rec.items[i].artworkPreviewUrl =
                        FirstPresent(items[i],
                                     <<"previewUrl", "previewImageUrl", "previewUrlHttps">>)

\* Every aliased field given under all its aliases with different values
\* (the address at the top level and nested): the first of each was taken.
C17_Witness ==
    /\ pc[1] = "prepared"
    /\ LET body == event[1].body.obj
       IN  /\ {"customerInfo", "shippingAddress", "items"} \subseteq DOMAIN body
           /\ {"name", "fullName", "shippingAddress"} \subseteq DOMAIN body.customerInfo
           /\ {"street", "address"} \subseteq DOMAIN body.shippingAddress
           /\ {"artworkUrl", "imageUrl", "artworkS3Url", "previewUrl", "previewImageUrl",
               "previewUrlHttps"} \subseteq DOMAIN body.items[1]
           /\ body.items[1].artworkUrl = "https://a/art.png"
           /\ body.items[1].previewUrl = "https://a/prev.png"
    /\ order_record[1].customerInfo.name = "Ann"
    /\ order_record[1].customerInfo.shippingAddress.street = "1 Main"
    /\ order_record[1].customerInfo.shippingAddress.city = "Troy"
    /\ order_record[1].items[1].artworkS3Url = "https://a/art.png"
    /\ order_record[1].items[1].artworkPreviewUrl = "https://a/prev.png"

\* C18: prepare_order_record applied to a record it produced returns that
\* record in every canonical field, createdAt and updatedAt aside.
C18_PrepareIdempotent ==
    pc[2] = "prepared" =>
        \A k \in DOMAIN order_record[1] \ {"createdAt", "updatedAt"} :
            order_record[2][k] = order_record[1][k]

\* C19: for every payload the handler accepts, the record's customer name,
\* email, street, city, state and zip are non-empty and are those of the
\* address object the validator inspected, whether the payload has the
\* address at the top level or nested in customerInfo.
C19_AcceptedRecordComplete ==
    \A p \in Parsed :
        order_record[p] /= NoRecord =>
            LET body == event[p].body.obj
                rec  == order_record[p].customerInfo
                addr == AddressObject(body)
            IN  /\ rec.name /= "" /\ rec.email /= ""
                /\ rec.name \in {Get(body.customerInfo, k, "") : k \in {"name", "fullName"}}
                /\ rec.email = body.customerInfo.email
                /\ rec.shippingAddress.street /= ""
                /\ rec.shippingAddress.street
                      \in {Get(addr, k, "") : k \in {"street", "address"}}
                /\ \A f \in {"city", "state", "zip"} :
                      /\ rec.shippingAddress[f] /= ""
                      /\ f \in DOMAIN addr /\ rec.shippingAddress[f] = addr[f]

\* An order with the address nested in customerInfo only, its line given as
\* 'address' next to an empty 'street', was answered 201.
C19_Witness ==
    /\ Status(1) = 201
    /\ "shippingAddress" \notin DOMAIN event[1].body.obj
    /\ Get(event[1].body.obj.customerInfo.shippingAddress, "street", None) = ""
    /\ order_record[1].customerInfo.shippingAddress.street = "9 Elm"
    /\ order_record[1].customerInfo.shippingAddress.zip = "12180"

\* C20: in every record the handler persisted, each item's quantity is a
\* positive integer and each item's unitPrice and totalPrice and the
\* order's subtotal, shipping and total are at least 0.
C20_PersistedAmountsInRange ==
    \A id \in DOMAIN orders :
        /\ \A i \in 1..Len(orders[id].items) :
              /\ orders[id].items[i].quantity \in Nat \ {0}
              /\ orders[id].items[i].unitPrice >= 0
              /\ orders[id].items[i].totalPrice >= 0
        /\ orders[id].subtotal >= 0
        /\ orders[id].shipping >= 0
        /\ orders[id].total >= 0

\* C21: for an item that carries no totalPrice, the reconciled totalPrice
\* is its unitPrice at 2 decimals times its integer quantity (1.43 and 50
\* give 71.50).
C21_DefaultTotalPrice ==
    pc[1] = "prepared" =>
        LET body == event[1].body.obj
            rec  == order_record[1]
        IN  \A i \in 1..Len(Get(body, "items", <<>>)) :
                "totalPrice" \notin DOMAIN body.items[i] =>
                    LET given == Get(body.items[i], "unitPrice", Num(0))
                        mills == IF IsNum(given) THEN given.num ELSE ParseDecimal(given.str).mills
                        n     == Get(body.items[i], "quantity", Num(0))
                    IN  /\ 10 * rec.items[i].unitPrice - mills \in -5..5
                        /\ IsNum(n) /\ n.num % 1000 = 0 => rec.items[i].quantity = n.num \div 1000
                        /\ rec.items[i].totalPrice = rec.items[i].unitPrice * rec.items[i].quantity

\* unitPrice 1.43 and quantity 50 without totalPrice gave 71.50.
C21_Witness ==
    /\ pc[1] = "prepared"
    /\ Get(event[1].body.obj, "items", <<>>) /= <<>>
    /\ LET item == event[1].body.obj.items[1]
       IN  /\ "totalPrice" \notin DOMAIN item
           /\ Get(item, "unitPrice", Num(0)) = Num(1430)
           /\ Get(item, "quantity", Num(0)) = Num(50000)
    /\ order_record[1].items[1].totalPrice = 7150

\* C22: no accepted record has an item whose totalPrice differs from its
\* unitPrice times its quantity: a supplied totalPrice is cross-checked.
C22_TotalPriceCrossChecked ==
    \A p \in Parsed :
        order_record[p] /= NoRecord =>
            \A i \in 1..Len(order_record[p].items) :
                order_record[p].items[i].totalPrice =
                    order_record[p].items[i].unitPrice * order_record[p].items[i].quantity

\* C23: whichever optional fields and aliases of a JSON-object payload are
\* missing, prepare_order_record returns a record without raising, and an
\* aliased field whose aliases are all absent resolves to the empty string
\* (customer name, street, artwork source URL, preview URL) or to zero (an
\* item's totalPrice).
C23_PrepareTotalOnMissing ==
    LET body  == event[1].body.obj
        items == Get(body, "items", <<>>)
        ci    == Get(body, "customerInfo", EmptyDict)
        addr  == AddressObject(body)
        rec   == order_record[1]
        none(d, ks) == DOMAIN d \cap ks = {}
    IN  /\ pc[1] = "raised" =>
              \E i \in 1..Len(items) :
                  "quantity" \in DOMAIN items[i] /\ ~IsNum(items[i].quantity)
        /\ pc[1] = "prepared" =>
              /\ none(ci, {"name", "fullName"}) => rec.customerInfo.name = ""
              /\ none(addr, {"street", "address"}) => rec.customerInfo.shippingAddress.street = ""
              /\ Len(rec.items) = Len(items)
              /\ \A i \in 1..Len(items) :
                    /\ none(items[i], {"artworkUrl", "imageUrl", "artworkS3Url"})
                          => rec.items[i].artworkS3Url = ""
                    /\ none(items[i], {"previewUrl", "previewImageUrl", "previewUrlHttps"})
                          => rec.items[i].artworkPreviewUrl = ""
                    /\ (none(items[i], {"totalPrice", "unitPrice"})
                          \/ none(items[i], {"totalPrice", "quantity"}))
                          => rec.items[i].totalPrice = 0

\* An order whose only item is the empty object was prepared: every
\* aliased field of the record is the empty string, the total zero.
C23_Witness ==
    /\ pc[1] = "prepared"
    /\ event[1].body.obj = [items |-> <<EmptyDict>>]
    /\ order_record[1].customerInfo.name = ""
    /\ order_record[1].customerInfo.shippingAddress.street = ""
    /\ order_record[1].items[1].artworkS3Url = ""
    /\ order_record[1].items[1].artworkPreviewUrl = ""
    /\ order_record[1].items[1].totalPrice = 0
    /\ order_record[1].items[1].quantity = 0

\* An email of the shape local@domain.tld: one '@', a non-empty local part,
\* and a domain whose dot-separated labels are at least two and non-empty.
HasEmailShape(email) ==
    LET ats == {i \in 1..Len(email) : SubSeq(email, i, i) = "@"}
    IN  /\ Cardinality(ats) = 1
        /\ LET at     == CHOOSE i \in ats : TRUE
               domain == SubSeq(email, at + 1, Len(email))
               labels == split(domain, ".")
           IN  /\ at > 1
               /\ Len(labels) >= 2
               /\ \A i \in 1..Len(labels) : labels[i] /= ""

\* C24: validate_customer_info reports an email-format error for every
\* non-empty email that has not the shape local@domain.tld, and no email
\* error for an email that has it.
C24_EmailShapeChecked ==
    \A p \in Parsed :
        LET ci    == CustomerInfoOf(event[p].body.obj)
            email == Get(ci, "email", "")
        IN  (customer_errors[p] /= NotRun /\ email /= "") =>
                LET errs == Range(customer_errors[p].errors)
                IN  IF HasEmailShape(email)
                    THEN /\ "Invalid email format" \notin errs
                         /\ "Missing required customer field: email" \notin errs
                    ELSE "Invalid email format" \in errs

\* C25: a request whose body is not parseable JSON is answered at once with
\* the 400 malformed-input response: no validator is run for it, nothing is
\* written to the orders store and no notification is attempted.
C25_MalformedBodyRejected ==
    \A p \in Submissions :
        (pc[p] /= "idle" /\ event[p].httpMethod /= "OPTIONS" /\ event[p].body.kind = "invalid") =>
            /\ pc[p] = "done"
            /\ Status(p) = 400
            /\ response[p].body = [success |-> FALSE, error |-> "Invalid JSON in request body"]
            /\ customer_errors[p] = NotRun
            /\ item_errors[p] = NotRun
            /\ order_record[p] = NoRecord
            /\ puts[p] = <<>>
            /\ invokes[p] = <<>>
            /\ orders = EmptyDict

\* A POST with an unparseable body was answered 400.
C25_Witness ==
    /\ pc[1] = "done"
    /\ event[1] = [httpMethod |-> "POST", body |-> [kind |-> "invalid"]]
    /\ Status(1) = 400

(***************************************************************************)
(* Properties of the pricing query.                                        *)
(***************************************************************************)
\* The dimensions of a well-formed size token (numbers separated by x), in
\* thousandths; <<>> for a token that is no size.
Dimensions(size) ==
    LET parts == split(lower(size), "x")
    IN  IF \A i \in 1..Len(parts) : ParseDecimal(parts[i]).ok
        THEN [i \in 1..Len(parts) |-> ParseDecimal(parts[i]).mills]
        ELSE <<>>

\* C26: availableSizes of the full listing is ascending by the numeric
\* dimensions of each size (width, then height): 2x2 before 2.5x2.5 before
\* 10x10; every token that fails to parse comes after all well-formed
\* sizes; the listing is answered (the sort does not raise).
C26_SizesSortedNumerically ==
    ("query" \in DOMAIN answer /\ "size" \notin DOMAIN answer.query) =>
        LET table == tables[get_table_name_for_type(answer.query.type)]
            resp  == answer.response
        IN  /\ resp.statusCode \in {200, 404}
            /\ resp.statusCode = 200 =>
                  LET sizes == resp.body.availableSizes
                  IN  /\ \A a, b \in 1..Len(sizes) :
                            a < b =>
                               LET da == Dimensions(sizes[a])
                                   db == Dimensions(sizes[b])
                               IN  /\ db /= <<>> => da /= <<>>
                                   /\ (da /= <<>> /\ db /= <<>>) =>
                                         \/ da[1] < db[1]
                                         \/ da[1] = db[1] /\ da[2] <= db[2]
                      /\ \A a, b \in 1..Len(sizes) : sizes[a] = sizes[b] => a = b

\* The sticker listing after the refresh: the three sizes in numeric order,
\* then the two tokens that are no sizes.
C26_Witness ==
    /\ "query" \in DOMAIN answer
    /\ answer.query = [type |-> "sticker"]
    /\ answer.response.statusCode = 200
    /\ Len(answer.response.body.availableSizes) = 5
    /\ SubSeq(answer.response.body.availableSizes, 1, 3) = <<"2x2", "2.5x2.5", "10x10">>
    /\ {answer.response.body.availableSizes[i] : i \in 4..5} = {"box", "4x"}

\* C27: a pricing query whose type is none of sticker, magnet, fridge
\* (compared case-insensitively) is answered 404, as a valid type queried
\* with an absent size is.
C27_InvalidTypeNotFound ==
    ("query" \in DOMAIN answer /\ "type" \in DOMAIN answer.query) =>
        (lower(answer.query.type) \notin {"sticker", "magnet", "fridge"}
            => answer.response.statusCode = 404)

(***************************************************************************)
(* Properties of the order identity and of the handler's answers.          *)
(***************************************************************************)
\* SLMAG-<14 digits>-<3 characters of A-Z and 0-9>
IsGeneratedId(id) ==
    /\ Len(id) = 24
    /\ SubSeq(id, 1, 6) = "SLMAG-"
    /\ IsDigits(SubSeq(id, 7, 20))
    /\ SubSeq(id, 21, 21) = "-"
    /\ \A i \in 22..24 : Contains("ABCDEFGHIJKLMNOPQRSTUVWXYZ0123456789", SubSeq(id, i, i))

\* C28: the record's orderId is the client's orderId verbatim when the
\* payload has a non-empty one, else a generated SLMAG-<yyyyMMddHHmmss>-<3
\* characters of A-Z0-9>; the 201 response carries the orderId of the
\* persisted record.
C28_OrderIdClientOrGenerated ==
    \A p \in Parsed :
        order_record[p] /= NoRecord =>
            LET given == Get(event[p].body.obj, "orderId", "")
                id    == order_record[p].orderId
            IN  /\ IF given /= "" THEN id = given ELSE IsGeneratedId(id)
                /\ Status(p) = 201 =>
                      /\ response[p].body.orderId = id
                      /\ id \in DOMAIN orders
                      /\ orders[id].orderId = id

\* An order submitted with the empty orderId was answered 201 and stored
\* under a generated id.
C28_Witness ==
    /\ Status(1) = 201
    /\ Get(event[1].body.obj, "orderId", None) = ""
    /\ response[1].body.orderId = "SLMAG-20240101120000-A7Q"
    /\ "SLMAG-20240101120000-A7Q" \in DOMAIN orders

\* C29: the handler answers 500 only when the put on the orders store
\* failed, and every request that ended before a put was attempted (other
\* than the CORS preflight) is answered 400, whatever the shape and the types
\* of its payload.
C29_RejectedBeforePutIs400 ==
    \A p \in Submissions :
        (pc[p] = "done" /\ event[p].httpMethod /= "OPTIONS") =>
            /\ puts[p] = <<>> => Status(p) = 400
            /\ Status(p) = 500 => (puts[p] /= <<>> /\ puts[p] /= <<"ok">>)

\* C30: in every record prepare_order_record produces, subtotal is the sum
\* of the items' canonical totalPrice and total is subtotal plus shipping,
\* whatever subtotal and total the payload carried.
C30_TotalsRecomputed ==
    pc[1] = "prepared" =>
        LET rec == order_record[1]
        IN  /\ rec.subtotal = SumTotals(rec.items)
            /\ rec.total = rec.subtotal + rec.shipping

====
